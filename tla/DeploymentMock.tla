---------------------------- MODULE DeploymentMock ----------------------------
(***************************************************************************)
(* mocks/deploymentmock/deploymentmock.go: the in-memory double of the     *)
(* deployment service the export worker talks to.                          *)
(*                                                                         *)
(* A request takes the mutex twice: the guard reads the failure mode, lets *)
(* go, sleeps for the latency (or 65 seconds in the timeout mode), and     *)
(* only then the handler takes the mutex and works on the state it finds.  *)
(* So a request is admitted in one step and answered in a later one, and   *)
(* control, seed, reset and other requests come in between; a client that  *)
(* stopped waiting does not stop the handler.  Requests refused before the *)
(* second lock for their shape are not enumerated.                         *)
(***************************************************************************)
EXTENDS Naturals, Sequences, FiniteSets

CONSTANTS Connections,   \* how many requests may be in flight
          Deployments, Statuses, StorageKeys, ManifestDigests,
          Extras,        \* the texts of the rest of a pointer: entry, counts,
                         \* routes
          Contents,      \* what such texts can be decoded to
          Decoded,       \* Decoded[x]: what json.Unmarshal makes of x
          FailModes,     \* the injected failures
          Requests,      \* the requests clients send
          SeedStatuses,  \* the statuses records are seeded with
          MaxSeeds,      \* bound: seeds and resets together
          None           \* a missing map entry, or no request

\* Numbers become float64: texts with numbers that round to one float64 have one
\* content, and one with a number beyond float64 cannot be decoded (None).
ASSUME DecodedAssumption ==
    /\ Decoded \in [Extras -> Contents \cup {None}]
    /\ None \notin Contents

Pointer == [storageKey: StorageKeys, digest: ManifestDigests, extra: Extras]

Get(d)             == [kind |-> "get", id |-> d]
Patch(d, from, to) == [kind |-> "patch", id |-> d, from |-> from, to |-> to]
Post(d, p)         == [kind |-> "post", id |-> d, pointer |-> p]

Request == {Get(d) : d \in Deployments}
    \cup {Patch(d, from, to) : d \in Deployments, from, to \in Statuses}
    \cup {Post(d, p) : d \in Deployments, p \in Pointer}

FailNone == "none"

ASSUME MockAssumption ==
    /\ Requests \subseteq Request
    /\ SeedStatuses \subseteq Statuses
    /\ FailNone \notin FailModes
    /\ MaxSeeds \in Nat
    /\ None \notin Statuses \cup Pointer

VARIABLES
    records,   \* records[d]: the status of the record of d, or None
    artifacts, \* artifacts[d]: the pointer registered for d, or None
    events,    \* <<from, to>> of every compare-and-set applied, oldest first
    failMode,
    inFlight,  \* inFlight[c]: the admitted request and the mode it was given
    \* History, read by no step of the code:
    epoch,     \* epoch[d]: how often d was seeded
    seededAs,  \* seededAs[d]: the status d was last seeded with
    origin,    \* origin[i]: <<d, epoch[d]>> of events[i]
    seeds,     \* counts seeds and resets, for the bound
    accepted,  \* accepted[d]: the pointers answered 204 since the last reset
    refused    \* refused[d]: the pointers answered 409 since the last reset

state   == <<records, artifacts, events>>
pointers == <<accepted, refused>>
vars    == <<state, failMode, inFlight, epoch, seededAs, origin, seeds, pointers>>

Nothing == [d \in Deployments |-> None]

Init == /\ records = Nothing /\ artifacts = Nothing /\ events = <<>>
        /\ failMode = FailNone
        /\ inFlight = [c \in Connections |-> None]
        /\ epoch = [d \in Deployments |-> 0]
        /\ seededAs = Nothing
        /\ origin = <<>>
        /\ seeds = 0
        /\ accepted = [d \in Deployments |-> {}]
        /\ refused = [d \in Deployments |-> {}]

------------------------------------------------------------------------------
\* The control surface: no guard, one locked step each.
Control(mode) ==
    /\ failMode' = mode
    /\ UNCHANGED <<state, inFlight, epoch, seededAs, origin, seeds, pointers>>

\* Seeding replaces the record and leaves its artifact and events.
Seed(d, s) ==
    /\ seeds < MaxSeeds
    /\ seeds' = seeds + 1
    /\ records' = [records EXCEPT ![d] = s]
    /\ epoch' = [epoch EXCEPT ![d] = @ + 1]
    /\ seededAs' = [seededAs EXCEPT ![d] = s]
    /\ UNCHANGED <<artifacts, events, failMode, inFlight, origin, pointers>>

ClearState == records' = Nothing /\ artifacts' = Nothing /\ events' = <<>>

\* A reset does not reach the requests in flight.
Reset ==
    /\ seeds < MaxSeeds
    /\ seeds' = seeds + 1
    /\ ClearState
    /\ failMode' = FailNone
    /\ origin' = <<>>
    /\ accepted' = [d \in Deployments |-> {}]
    /\ refused' = [d \in Deployments |-> {}]
    /\ UNCHANGED <<inFlight, epoch, seededAs>>

------------------------------------------------------------------------------
\* guard, up to its unlock: the mode is read now and obeyed after the sleep.
Admit(c, r) ==
    /\ inFlight[c] = None
    /\ inFlight' = [inFlight EXCEPT ![c] = [request |-> r, mode |-> failMode]]
    /\ UNCHANGED <<state, failMode, epoch, seededAs, origin, seeds, pointers>>

Answered(c) == inFlight' = [inFlight EXCEPT ![c] = None]

\* The injected failure: an error answer, however the mode has changed since.
Injected(c) ==
    /\ inFlight[c] # None
    /\ inFlight[c].mode # FailNone
    /\ Answered(c)
    /\ UNCHANGED <<state, failMode, epoch, seededAs, origin, seeds, pointers>>

\* The handler of a kind of request runs once the guard lets it.
Handling(c, kind) ==
    /\ inFlight[c] # None
    /\ inFlight[c].mode = FailNone
    /\ inFlight[c].request.kind = kind

Known(r) == records[r.id] # None

\* A read, and a request for a record that is not there: 200 or 404.
HandleWithoutEffect(c) ==
    /\ \/ Handling(c, "get")
       \/ /\ Handling(c, "patch") \/ Handling(c, "post")
          /\ ~Known(inFlight[c].request)
    /\ Answered(c)
    /\ UNCHANGED <<state, failMode, epoch, seededAs, origin, seeds, pointers>>

BugNoCompare(r) == Known(r)

\* The compare-and-set compares with the record as it is after the sleep.
Current(r) == Known(r) /\ records[r.id] = r.from

PatchStatus(c) ==
    LET r == inFlight[c].request IN
    /\ Handling(c, "patch")
    /\ Current(r)
    /\ records' = [records EXCEPT ![r.id] = r.to]
    /\ events' = Append(events, <<r.from, r.to>>)
    /\ origin' = Append(origin, <<r.id, epoch[r.id]>>)
    /\ Answered(c)
    /\ UNCHANGED <<artifacts, failMode, epoch, seededAs, seeds, pointers>>

\* 409 STATUS_CONFLICT with the current status.
PatchConflict(c) ==
    LET r == inFlight[c].request IN
    /\ Handling(c, "patch")
    /\ Known(r)
    /\ ~Current(r)
    /\ Answered(c)
    /\ UNCHANGED <<state, failMode, epoch, seededAs, origin, seeds, pointers>>

BugSameDigest(p, q) == p.digest = q.digest

\* jsonEqual: both are decoded, and every field is compared.  A text that cannot
\* be decoded is not even equal to itself.
SamePointer(p, q) ==
    /\ Decoded[p.extra] # None /\ Decoded[q.extra] # None
    /\ p.storageKey = q.storageKey /\ p.digest = q.digest
    /\ Decoded[p.extra] = Decoded[q.extra]

\* The first pointer is registered; a repeated one is accepted without effect.
PostArtifact(c) ==
    LET r == inFlight[c].request IN
    /\ Handling(c, "post")
    /\ Known(r)
    /\ \/ /\ artifacts[r.id] = None
          /\ artifacts' = [artifacts EXCEPT ![r.id] = r.pointer]
       \/ /\ artifacts[r.id] # None
          /\ SamePointer(artifacts[r.id], r.pointer)
          /\ UNCHANGED artifacts
    /\ accepted' = [accepted EXCEPT ![r.id] = @ \cup {r.pointer}]
    /\ Answered(c)
    /\ UNCHANGED <<records, events, failMode, epoch, seededAs, origin, seeds, refused>>

\* 409 ARTIFACT_CONFLICT.
PostConflict(c) ==
    LET r == inFlight[c].request IN
    /\ Handling(c, "post")
    /\ Known(r)
    /\ artifacts[r.id] # None
    /\ ~SamePointer(artifacts[r.id], r.pointer)
    /\ refused' = [refused EXCEPT ![r.id] = @ \cup {r.pointer}]
    /\ Answered(c)
    /\ UNCHANGED <<state, failMode, epoch, seededAs, origin, seeds, accepted>>

Answer(c) == \/ Injected(c)
             \/ HandleWithoutEffect(c)
             \/ PatchStatus(c)
             \/ PatchConflict(c)
             \/ PostArtifact(c)
             \/ PostConflict(c)

Next == \/ \E mode \in FailModes \cup {FailNone} : Control(mode)
        \/ \E d \in Deployments, s \in SeedStatuses : Seed(d, s)
        \/ Reset
        \/ \E c \in Connections, r \in Requests : Admit(c, r)
        \/ \E c \in Connections : Answer(c)

Spec == Init /\ [][Next]_vars
------------------------------------------------------------------------------
\* The records, pointers, events and requests in flight are well formed, and
\* nothing is kept for a deployment that was never seeded.
TypeOK ==
    /\ records \in [Deployments -> Statuses \cup {None}]
    /\ artifacts \in [Deployments -> Pointer \cup {None}]
    /\ events \in Seq(Statuses \X Statuses)
    /\ failMode \in FailModes \cup {FailNone}
    /\ inFlight \in [Connections -> {None} \cup
           [request: Requests, mode: FailModes \cup {FailNone}]]
    /\ epoch \in [Deployments -> 0 .. MaxSeeds]
    /\ seededAs \in [Deployments -> Statuses \cup {None}]
    /\ origin \in Seq(Deployments \X (0 .. MaxSeeds))
    /\ seeds \in 0 .. MaxSeeds
    /\ accepted \in [Deployments -> SUBSET Pointer]
    /\ refused \in [Deployments -> SUBSET Pointer]
    /\ \A d \in Deployments :
          epoch[d] = 0 => records[d] = None /\ artifacts[d] = None

\* The transitions of d since it was last seeded or everything was reset.
Trail(d) == {i \in DOMAIN events : origin[i] = <<d, epoch[d]>>}

\* The audit trail explains every status: since it was seeded, a deployment went
\* through its recorded transitions one after the other, each starting where the
\* one before it ended, and is where the last of them left it, although the
\* requests were admitted in another order and slept in between
\* (deploymentmock.go:164-171).
TrailExplainsStatus ==
    /\ Len(origin) = Len(events)
    /\ \A d \in Deployments : records[d] # None =>
          LET trail == Trail(d) IN
          /\ trail = {} => records[d] = seededAs[d]
          /\ \A i \in trail :
                LET earlier == {j \in trail : j < i}
                    later   == {j \in trail : j > i}
                IN  /\ earlier = {} => events[i][1] = seededAs[d]
                    /\ later = {} => records[d] = events[i][2]
                    /\ \A j \in later :
                          (\A k \in later : j <= k) => events[j][1] = events[i][2]

\* Of the workers that race to move a deployment on from one status, one is
\* told it did: where no transition leads back, none is taken twice between two
\* seeds (deploymentmock.go:157-171).
ClaimedOnce ==
    \A d \in Deployments : records[d] # None =>
        \A i, j \in Trail(d) : events[i][1] = events[j][1] => i = j

SameManifest(p, q) == p.storageKey = q.storageKey /\ p.digest = q.digest

\* "One deploymentId -> at most one artifact manifest" (deploymentmock.go:216),
\* where ADR-004 and the mock agree: between two resets every pointer that was
\* answered 204 names the manifest on record by storage key and digest, also when
\* the deployment is seeded again in between, and whoever posts again what was
\* accepted is not refused, unless its text cannot be decoded.  What the mock
\* refuses beyond that, a pointer to the same manifest with another rest, is not
\* claimed to be right: ADR-004:17 calls it identical.
OneManifest ==
    \A d \in Deployments :
        /\ \A p \in accepted[d] :
              artifacts[d] # None /\ SameManifest(p, artifacts[d])
        /\ artifacts[d] # None => artifacts[d] \in accepted[d]
        /\ \A p \in accepted[d] \cap refused[d] : Decoded[p.extra] = None
=============================================================================
