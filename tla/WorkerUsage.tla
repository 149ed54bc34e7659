------------------------------ MODULE WorkerUsage ------------------------------
(***************************************************************************)
(* The usage ledger of mocks/fakeworker/worker.go: usage of all attempts,  *)
(* whatever fence is active, deduplicated by the provider's request or by  *)
(* the attempt's observation.  ObserveUsage adds what it is given;         *)
(* ObserveCumulativeUsage is given a running total per attempt and adds    *)
(* what is new in it.  Observations come from several attempts, repeated   *)
(* and in any order.  A call is one step under the mutex; a call that is   *)
(* refused without effect is a stutter.                                    *)
(***************************************************************************)
EXTENDS Integers, FiniteSums

CONSTANTS Attempts, Providers, Observations,
          Usages,    \* the observations callers may send
          MaxInt,    \* math.MaxInt64
          Missing    \* no provider request id, or a missing map entry

Usage == [provider: Providers \cup {Missing}, observation: Observations,
          attempt: Attempts, units: 0 .. MaxInt]

ASSUME UsagesAssumption == /\ MaxInt \in Nat
                           /\ Usages \subseteq Usage
                           /\ Missing \notin Usage

BugKeyByObservation(u) == <<"attempt", u.attempt, u.observation>>

\* usageKey: the provider's request id, or else the attempt's observation.
Key(u) == IF u.provider # Missing THEN <<"provider", u.provider>>
                                  ELSE <<"attempt", u.attempt, u.observation>>

UsageKeys == {<<"provider", p>> : p \in Providers}
                 \cup {<<"attempt", a, o>> : a \in Attempts, o \in Observations}

VARIABLES
    usage,       \* usage[k]: the observation recorded under key k
    usageTotal,
    highWater,   \* highWater[a]: the largest amount observed for attempt a
    \* History, read by no step of the code:
    additive,    \* the attempts ObserveUsage recorded an observation of
    cumulative   \* the attempts ObserveCumulativeUsage recorded one of

usageVars == <<usage, usageTotal, highWater, additive, cumulative>>

UsageInit ==
    /\ usage = [k \in UsageKeys |-> Missing]
    /\ usageTotal = 0
    /\ highWater = [a \in Attempts |-> 0]
    /\ additive = {}
    /\ cumulative = {}

------------------------------------------------------------------------------
BugNoOverflowCheck(amount) == FALSE

\* The addition would not fit an int64.
Overflows(amount) == usageTotal > MaxInt - amount

New(u) == usage[Key(u)] = Missing

BugKeepHighWater(u) == highWater[u.attempt]

RaisedTo(u) == Max({u.units, highWater[u.attempt]})

ObserveUsage(u) ==
    /\ ~Overflows(u.units)
    /\ New(u)
    /\ usage' = [usage EXCEPT ![Key(u)] = u]
    /\ usageTotal' = usageTotal + u.units
    /\ highWater' = [highWater EXCEPT ![u.attempt] = RaisedTo(u)]
    /\ additive' = additive \cup {u.attempt}
    /\ UNCHANGED cumulative

BugWholeAmount(u) == u.units

\* What a running total adds to the one observed before it.
Delta(u) == u.units - highWater[u.attempt]

\* A total below the one observed before is refused.  One that would overflow
\* is refused as well, but the observation has been recorded by then.
ObserveCumulativeUsage(u) ==
    /\ New(u)
    /\ Delta(u) >= 0
    /\ usage' = [usage EXCEPT ![Key(u)] = u]
    /\ cumulative' = cumulative \cup {u.attempt}
    /\ \/ /\ Overflows(Delta(u))
          /\ UNCHANGED <<usageTotal, highWater>>
       \/ /\ ~Overflows(Delta(u))
          /\ usageTotal' = usageTotal + Delta(u)
          /\ highWater' = [highWater EXCEPT ![u.attempt] = u.units]
    /\ UNCHANGED additive

UsageNext == \/ \E u \in Usages : ObserveUsage(u)
        \/ \E u \in Usages : ObserveCumulativeUsage(u)

UsageSpec == UsageInit /\ [][UsageNext]_usageVars

------------------------------------------------------------------------------
\* The total and every amount fit an int64.
UsageTypeOK ==
    /\ usage \in [UsageKeys -> Usage \cup {Missing}]
    /\ usageTotal \in 0 .. MaxInt
    /\ highWater \in [Attempts -> 0 .. MaxInt]
    /\ additive \subseteq Attempts
    /\ cumulative \subseteq Attempts

UsageOf(a) == {k \in UsageKeys : usage[k] # Missing /\ usage[k].attempt = a}

SumOf(a) == SumOver([k \in UsageOf(a) |-> usage[k].units], UsageOf(a))

Largest(a) == Max({0} \cup {usage[k].units : k \in UsageOf(a)})

\* The high-water mark a running total is compared with is the largest amount
\* that was accepted for the attempt, also when the attempt reports both ways:
\* no amount below it is on record above it.
HighWaterIsLargest ==
    \A a \in Attempts :
        /\ highWater[a] <= Largest(a)
        /\ a \notin cumulative => highWater[a] = Largest(a)

\* The attempts with an observation on record; the others count for nothing.
Reporting == additive \cup cumulative

Least == [a \in Attempts |->
              IF a \in cumulative THEN highWater[a] ELSE SumOf(a)]

Most == [a \in Attempts |->
             IF a \in additive THEN SumOf(a) ELSE highWater[a]]

\* Whatever the order and repetition of the observations, an attempt that
\* reports running totals counts for the largest one accepted and an attempt
\* that reports single amounts for their sum, so the total is exact when none
\* does both; an attempt that does both counts for no less than the one and no
\* more than the other (worker.go:174-213; the tests run one order of each).
TotalIsExact == /\ HighWaterIsLargest
                /\ usageTotal >= SumOver(Least, Reporting)
                /\ usageTotal <= SumOver(Most, Reporting)

\* One provider request is billed once, whichever attempts and observations
\* report it (worker.go:166-171): no other record carries its id.
ProviderRequestBilledOnce ==
    \A k, l \in UsageKeys :
        /\ usage[k] # Missing /\ usage[l] # Missing
        /\ usage[k].provider # Missing
        /\ usage[k].provider = usage[l].provider
        => k = l

\* "AllAttemptUsageNoUndercount" (mocks/fakeworker/worker_test.go:54): an
\* observation that is recorded, and so is refused as a duplicate when it is
\* sent again, is covered by the total.
NoUndercount ==
    usageTotal >= MapThenSumSet(Largest, Attempts)
=============================================================================
