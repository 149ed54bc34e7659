------------------------------ MODULE WorkerFence ------------------------------
(***************************************************************************)
(* Fencing, cancellation, drain and the artifact lifecycle of              *)
(* mocks/fakeworker/worker.go.  The lease holder executes under a fence    *)
(* and submits the result later; in between the worker may be restored,    *)
(* cancelled or drained and the lease may expire.  Each method holds the   *)
(* mutex throughout, so a call is one step and a refused call a stutter.   *)
(* Any caller may present any fence at any time, stale, forged or repeated. *)
(***************************************************************************)
EXTENDS Integers, Sequences, FiniteSets

CONSTANTS RecoveryEpochs, AttemptIDs, LeaseEpochs,
          Digests,        \* the content addresses of artifacts
          InitialFence,   \* the fence the worker is created with
          MaxGeneration,  \* bound: Restore stops here (an int64 in the code)
          MaxTime         \* bound: the callers' clock stops here

Times == 0 .. MaxTime

Fence == [recovery: RecoveryEpochs, generation: 1 .. MaxGeneration,
          attempt: AttemptIDs, lease: LeaseEpochs, expires: Times]

States == {"none", "pending", "scanning", "available",
           "quarantined", "revoked", "deleted"}

ASSUME BoundsAssumption == MaxGeneration \in Nat /\ MaxTime \in Nat
ASSUME FenceAssumption == InitialFence \in Fence /\ 1 \in LeaseEpochs

VARIABLES
    active,     \* the fence of the current lease
    cancelled, draining, committed,
    artifacts,  \* artifacts[d]: the state of the artifact, "none" before Put
    now,        \* the time callers pass to AcceptResult
    executed,   \* the fences under which Execute returned a result: each result
                \* is in flight from then on and may be submitted again
    \* History, read by no step of the code:
    issued,     \* every fence that was ever active
    commits,    \* <<fence, time>> of each commit, oldest first
    withheld    \* the artifacts ever quarantined, revoked or deleted

lease == <<active, cancelled, draining, committed>>
vars  == <<lease, artifacts, now, executed, issued, commits, withheld>>

Init == /\ active = InitialFence
        /\ cancelled = FALSE /\ draining = FALSE /\ committed = FALSE
        /\ artifacts = [d \in Digests |-> "none"]
        /\ now = 0
        /\ executed = {}
        /\ issued = {InitialFence}
        /\ commits = <<>>
        /\ withheld = {}

------------------------------------------------------------------------------
Tick == /\ now < MaxTime
        /\ now' = now + 1
        /\ UNCHANGED <<lease, artifacts, executed, issued, commits, withheld>>

BugEpochOnly(f, next) == [f EXCEPT !.recovery = next, !.lease = 1]

\* The caller's epoch need not be a later one, and the expiry is not renewed:
\* only the generation is sure to be new.
Superseding(f, next) ==
    [f EXCEPT !.recovery = next, !.generation = @ + 1, !.lease = 1]

BugRestoreRevives(next) ==
    /\ active' = Superseding(active, next)
    /\ committed' = FALSE
    /\ cancelled' = FALSE
    /\ UNCHANGED draining

RestoreLease(next) ==
    /\ active' = Superseding(active, next)
    /\ committed' = FALSE
    /\ UNCHANGED <<cancelled, draining>>

Restore(next) ==
    /\ active.generation < MaxGeneration
    /\ RestoreLease(next)
    /\ issued' = issued \cup {active'}
    /\ UNCHANGED <<artifacts, now, executed, commits, withheld>>

Cancel == /\ cancelled' = TRUE
          /\ UNCHANGED <<active, draining, committed, artifacts, now, executed,
                         issued, commits, withheld>>

Drain == /\ draining' = TRUE
         /\ UNCHANGED <<active, cancelled, committed, artifacts, now, executed,
                        issued, commits, withheld>>

\* A request whose input matches its digest, for the one declared capability.
\* The expiry of the lease is not looked at here.
Execute(f) ==
    /\ ~cancelled
    /\ ~draining
    /\ f = active
    /\ executed' = executed \cup {f}
    /\ UNCHANGED <<lease, artifacts, now, issued, commits, withheld>>

BugRefuseDraining(f) == ~cancelled /\ ~draining /\ now < f.expires /\ f = active

BugSameGeneration(f) ==
    ~cancelled /\ now < f.expires /\ f.generation = active.generation

\* Every field of the fence counts, its expiry too: a caller cannot extend it.
Accepted(f) == ~cancelled /\ now < f.expires /\ f = active

\* A second result under the fence that committed is accepted without effect.
Uncommitted == ~committed

AcceptResult(f) ==
    /\ Accepted(f)
    /\ Uncommitted
    /\ committed' = TRUE
    /\ commits' = Append(commits, <<f, now>>)
    /\ UNCHANGED <<active, cancelled, draining, artifacts, now, executed,
                   issued, withheld>>

\* A repeated Put is answered without effect, or refused if anything differs.
PutArtifact(d) ==
    /\ artifacts[d] = "none"
    /\ artifacts' = [artifacts EXCEPT ![d] = "pending"]
    /\ UNCHANGED <<lease, now, executed, issued, commits, withheld>>

BugReadmits == {<<"pending", "scanning">>, <<"pending", "quarantined">>,
                <<"scanning", "available">>, <<"scanning", "quarantined">>,
                <<"available", "revoked">>, <<"available", "deleted">>,
                <<"quarantined", "scanning">>, <<"quarantined", "deleted">>,
                <<"revoked", "deleted">>}

Allowed == {<<"pending", "scanning">>, <<"pending", "quarantined">>,
            <<"scanning", "available">>, <<"scanning", "quarantined">>,
            <<"available", "revoked">>, <<"available", "deleted">>,
            <<"quarantined", "deleted">>, <<"revoked", "deleted">>}

\* Only making an artifact available and deleting it take the active fence.
TransitionArtifact(d, f, next) ==
    /\ artifacts[d] # "none"
    /\ next \in {"available", "deleted"} => f = active
    /\ <<artifacts[d], next>> \in Allowed
    /\ artifacts' = [artifacts EXCEPT ![d] = next]
    /\ withheld' = IF next \in {"quarantined", "revoked", "deleted"}
                   THEN withheld \cup {d} ELSE withheld
    /\ UNCHANGED <<lease, now, executed, issued, commits>>

Next ==
    \/ Tick
    \/ \E next \in RecoveryEpochs : Restore(next)
    \/ Cancel
    \/ Drain
    \/ \E f \in Fence : Execute(f)
    \/ \E f \in Fence : AcceptResult(f)
    \/ \E d \in Digests : PutArtifact(d)
    \/ \E d \in Digests, f \in Fence, s \in States : TransitionArtifact(d, f, s)

\* The holder of a result submits it: the callers of Execute do so next.
Submission == WF_vars(\E f \in executed : AcceptResult(f))

Spec == Init /\ [][Next]_vars
FairSpec == Spec /\ Submission

------------------------------------------------------------------------------
\* Every variable holds what the worker can hold.
TypeOK == /\ active \in Fence
          /\ cancelled \in BOOLEAN /\ draining \in BOOLEAN /\ committed \in BOOLEAN
          /\ artifacts \in [Digests -> States]
          /\ now \in Times
          /\ executed \subseteq Fence
          /\ issued \subseteq Fence
          /\ commits \in Seq(Fence \X Times)
          /\ withheld \subseteq Digests

\* A fence that was superseded is never active again, although the recovery
\* epoch may be repeated, the lease epoch restarts at one and the attempt and
\* expiry are kept: of two fences that were ever active, one has the later
\* generation, and none is later than the active one (worker.go:101-108).
FenceIsNeverReissued ==
    /\ active \in issued
    /\ \A f \in issued : f.generation <= active.generation
    /\ \A f, g \in issued : f.generation = g.generation => f = g

\* Over all restores at most one result is committed per lease, in the order of
\* the leases, never after the lease expired; and the worker reports a commit
\* exactly when the active lease made one (worker.go:147-164; the contract
\* line "stale fences cannot commit state", agent-events.asyncapi.json:188).
OneCommitPerLease ==
    /\ \A i, j \in DOMAIN commits :
          i < j => commits[i][1].generation < commits[j][1].generation
    /\ \A i \in DOMAIN commits :
          commits[i][1] \in issued /\ commits[i][2] < commits[i][1].expires
    /\ committed <=> \E i \in DOMAIN commits : commits[i][1] = active

\* An artifact that is readable was never quarantined, revoked or deleted, by
\* whatever fence and across whatever restores, and a deleted one stays deleted
\* (worker.go:233-265).
WithheldIsNeverReadable ==
    \A d \in withheld : artifacts[d] \in {"quarantined", "revoked", "deleted"}

\* After a cancellation no work starts and nothing commits, whatever is in
\* flight and even if the worker is restored under a new lease.
CancelIsForGood ==
    [][cancelled => cancelled' /\ executed' = executed /\ commits' = commits]_vars

\* A result is not lost: one obtained under the active lease is committed,
\* unless a cancellation, a restore or the expiry of the lease comes first.
\* Draining is none of these: it stops new work and lets this one finish.
ResultGetsThrough ==
    (active \in executed) ~>
        (committed \/ cancelled \/ active \notin executed \/ now >= active.expires)
=============================================================================
