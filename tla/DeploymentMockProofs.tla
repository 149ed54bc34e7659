-------------------------- MODULE DeploymentMockProofs --------------------------
(***************************************************************************)
(* Proofs about DeploymentMock, for any number of connections, deployments *)
(* and statuses and for any requests: the audit trail explains every       *)
(* status, and a deployment has one manifest between two resets.           *)
(***************************************************************************)
EXTENDS DeploymentMock, TLAPS

\* A deployment has been seeded at most as often as anything was, and the
\* history of a transition names a seeding that has happened.
EpochsArePast ==
    /\ \A d \in Deployments : epoch[d] <= seeds
    /\ Len(origin) = Len(events)
    /\ \A i \in DOMAIN events : \A d \in Deployments :
          origin[i][1] = d => origin[i][2] <= epoch[d]

\* Every pointer that was answered was compared with the one that is registered:
\* that one was accepted, the others accepted are equal to it, and the refused
\* ones are not.
ComparedIn(d) ==
    /\ \A p \in accepted[d] : /\ artifacts[d] # None
                              /\ p = artifacts[d] \/ SamePointer(artifacts[d], p)
    /\ artifacts[d] # None => artifacts[d] \in accepted[d]
    /\ \A p \in refused[d] : artifacts[d] # None /\ ~SamePointer(artifacts[d], p)

PointersCompared == \A d \in Deployments : ComparedIn(d)

\* The inductive invariant.
Mock == /\ TypeOK
        /\ EpochsArePast
        /\ TrailExplainsStatus
        /\ PointersCompared

\* What TrailExplainsStatus says of one deployment, over its transitions in
\* trail, from the status it was seeded with to the status it has.
Explains(trail, log, first, last) ==
    /\ trail = {} => last = first
    /\ \A i \in trail :
          LET earlier == {j \in trail : j < i}
              later   == {j \in trail : j > i}
          IN  /\ earlier = {} => log[i][1] = first
              /\ later = {} => last = log[i][2]
              /\ \A j \in later :
                    (\A k \in later : j <= k) => log[j][1] = log[i][2]

------------------------------------------------------------------------------
\* The fields of a request of each kind.
LEMMA RequestFields ==
    ASSUME NEW r \in Request
    PROVE  /\ r.id \in Deployments
           /\ r.kind = "patch" => r.from \in Statuses /\ r.to \in Statuses
           /\ r.kind = "post" => r.pointer \in Pointer
<1>1. CASE r \in {Get(d) : d \in Deployments}
    BY <1>1 DEF Get
<1>2. CASE r \in {Patch(d, from, to) : d \in Deployments, from, to \in Statuses}
    BY <1>2 DEF Patch
<1>3. CASE r \in {Post(d, p) : d \in Deployments, p \in Pointer}
    BY <1>3 DEF Post
<1> QED BY <1>1, <1>2, <1>3 DEF Request

\* A request in flight is one that was sent.
LEMMA InFlightRequest ==
    ASSUME TypeOK, NEW c \in Connections, inFlight[c] # None
    PROVE  /\ inFlight[c].request \in Requests
           /\ inFlight[c].request \in Request
BY MockAssumption DEF TypeOK

\* A connection that was answered is free again.
LEMMA AnsweredIsFree ==
    ASSUME TypeOK, NEW c \in Connections, Answered(c)
    PROVE  inFlight' \in [Connections -> {None} \cup
               [request: Requests, mode: FailModes \cup {FailNone}]]
BY DEF TypeOK, Answered

\* One more transition, from where the trail ended, is explained as well.
LEMMA TrailGrows ==
    ASSUME NEW trail, NEW n \in Nat, NEW log, NEW log2, NEW first, NEW last, NEW to,
           trail \subseteq 1 .. n,
           \A i \in trail : log2[i] = log[i],
           log2[n + 1] = <<last, to>>,
           Explains(trail, log, first, last)
    PROVE  Explains(trail \cup {n + 1}, log2, first, to)
<1> DEFINE all == trail \cup {n + 1}
<1>1. all # {}
    OBVIOUS
<1>2. ASSUME NEW i \in all
      PROVE  LET earlier == {j \in all : j < i}
                 later   == {j \in all : j > i}
             IN  /\ earlier = {} => log2[i][1] = first
                 /\ later = {} => to = log2[i][2]
                 /\ \A j \in later :
                       (\A k \in later : j <= k) => log2[j][1] = log2[i][2]
    <2>1. CASE i = n + 1
        <3> \A j \in trail : j \in Nat /\ j <= n
            OBVIOUS
        <3> n < n + 1 /\ ~(n + 1 < n + 1) /\ ~(n + 1 > n + 1)
            OBVIOUS
        <3>a. \A j \in trail : j < n + 1 /\ ~(j > n + 1)
            OBVIOUS
        <3>1. {j \in all : j > i} = {}
            BY <2>1, <3>a
        <3>2. {j \in all : j < i} = trail
            BY <2>1, <3>a, Zenon
        <3>3. trail = {} => last = first
            BY DEF Explains
        <3> QED BY <2>1, <3>1, <3>2, <3>3
    <2>2. CASE i \in trail
        <3> DEFINE earlier == {j \in trail : j < i}
                   later   == {j \in trail : j > i}
        <3>1. {j \in all : j < i} = earlier
            BY <2>2
        <3>2. {j \in all : j > i} = later \cup {n + 1}
            BY <2>2
        <3>3. /\ earlier = {} => log[i][1] = first
              /\ later = {} => last = log[i][2]
              /\ \A j \in later :
                    (\A k \in later : j <= k) => log[j][1] = log[i][2]
            BY <2>2 DEF Explains
        <3>4. log2[i] = log[i]
            BY <2>2
        <3>5. ASSUME NEW j \in later \cup {n + 1},
                     \A k \in later \cup {n + 1} : j <= k
              PROVE  log2[j][1] = log2[i][2]
            <4>1. CASE later = {}
                <5>1. j = n + 1
                    BY <4>1
                <5> QED BY <3>3, <3>4, <4>1, <5>1
            <4>2. CASE later # {}
                <5>1. j \in later
                    <6>1. PICK k \in later : TRUE
                        BY <4>2
                    <6>2. k \in 1 .. n /\ j <= k
                        BY <3>5, <6>1
                    <6> QED BY <6>2
                <5>2. log2[j] = log[j]
                    BY <5>1
                <5> QED BY <3>3, <3>4, <3>5, <5>1, <5>2
            <4> QED BY <4>1, <4>2
        <3> QED BY <3>1, <3>2, <3>3, <3>4, <3>5
    <2> QED BY <2>1, <2>2
<1> QED BY <1>1, <1>2 DEF Explains

\* TrailExplainsStatus in terms of Explains.
LEMMA TrailIsExplained ==
    TrailExplainsStatus <=>
        /\ Len(origin) = Len(events)
        /\ \A d \in Deployments : records[d] # None =>
              Explains(Trail(d), events, seededAs[d], records[d])
BY DEF TrailExplainsStatus, Explains

\* The same in the next state.
LEMMA TrailIsExplainedNext ==
    TrailExplainsStatus' <=>
        /\ Len(origin') = Len(events')
        /\ \A d \in Deployments : records'[d] # None =>
              Explains(Trail(d)', events', seededAs'[d], records'[d])
BY DEF TrailExplainsStatus, Explains

\* Without a seed, a reset or a transition there is nothing new to explain.
LEMMA TrailUntouched ==
    ASSUME TrailExplainsStatus,
           UNCHANGED <<records, events, epoch, seededAs, origin>>
    PROVE  TrailExplainsStatus'
<1>1. \A d \in Deployments : Trail(d)' = Trail(d)
    BY DEF Trail
<1> QED BY <1>1, TrailIsExplained, TrailIsExplainedNext

------------------------------------------------------------------------------
\* Nothing is seeded, registered or in flight.
LEMMA InitMock == Init => Mock
<1> SUFFICES ASSUME Init PROVE Mock
    OBVIOUS
<1> USE MockAssumption DEF Init, Nothing
<1>1. TypeOK
    BY DEF TypeOK
<1>2. EpochsArePast
    BY DEF EpochsArePast
<1>3. TrailExplainsStatus
    BY DEF TrailExplainsStatus
<1>4. PointersCompared
    BY DEF PointersCompared, ComparedIn
<1> QED BY <1>1, <1>2, <1>3, <1>4 DEF Mock

\* A step that leaves the records, pointers and their history alone.
LEMMA QuietKeepsMock ==
    ASSUME Mock,
           UNCHANGED <<state, epoch, seededAs, origin, seeds, pointers>>,
           failMode' \in FailModes \cup {FailNone},
           inFlight' \in [Connections -> {None} \cup
               [request: Requests, mode: FailModes \cup {FailNone}]]
    PROVE  Mock'
<1> USE DEF Mock, state, pointers
<1>1. TypeOK'
    BY DEF TypeOK
<1>2. EpochsArePast'
    BY DEF EpochsArePast
<1>3. TrailExplainsStatus'
    BY TrailUntouched
<1>4. PointersCompared'
    BY DEF PointersCompared, ComparedIn, SamePointer
<1> QED BY <1>1, <1>2, <1>3, <1>4

\* Seeding opens a new epoch, of which there is no transition yet.
LEMMA SeedKeepsMock ==
    ASSUME Mock, NEW d \in Deployments, NEW s \in SeedStatuses, Seed(d, s)
    PROVE  Mock'
<1> USE MockAssumption DEF Mock
<1>1. /\ seeds' = seeds + 1 /\ seeds < MaxSeeds
      /\ records' = [records EXCEPT ![d] = s]
      /\ epoch' = [epoch EXCEPT ![d] = @ + 1]
      /\ seededAs' = [seededAs EXCEPT ![d] = s]
      /\ UNCHANGED <<artifacts, events, failMode, inFlight, origin, accepted, refused>>
    BY DEF Seed, pointers
<1>2. s \in Statuses /\ epoch[d] \in Nat /\ epoch[d] + 1 <= seeds + 1
    BY DEF TypeOK, EpochsArePast
<1>3. TypeOK'
    <2>1. epoch' \in [Deployments -> 0 .. MaxSeeds]
        BY <1>1, <1>2 DEF TypeOK
    <2> QED BY <1>1, <1>2, <2>1 DEF TypeOK
<1>4. EpochsArePast'
    BY <1>1, <1>2 DEF EpochsArePast, TypeOK
<1>5. TrailExplainsStatus'
    <2> SUFFICES ASSUME NEW e \in Deployments, records'[e] # None
                 PROVE  Explains(Trail(e)', events', seededAs'[e], records'[e])
        BY <1>1, TrailIsExplainedNext DEF EpochsArePast
    <2>1. CASE e = d
        <3>1. Trail(d)' = {}
            <4> SUFFICES ASSUME NEW i \in DOMAIN events, origin[i] = <<d, epoch[d] + 1>>
                         PROVE  FALSE
                BY <1>1 DEF Trail, TypeOK
            <4>1. origin[i][2] <= epoch[d]
                BY DEF EpochsArePast
            <4> QED BY <1>2, <4>1
        <3>2. records'[d] = s /\ seededAs'[d] = s
            BY <1>1 DEF TypeOK
        <3> QED BY <2>1, <3>1, <3>2 DEF Explains
    <2>2. CASE e # d
        <3>1. /\ records'[e] = records[e] /\ seededAs'[e] = seededAs[e]
              /\ Trail(e)' = Trail(e) /\ events' = events
            BY <1>1, <2>2 DEF TypeOK, Trail
        <3>2. Explains(Trail(e), events, seededAs[e], records[e])
            BY <3>1, TrailIsExplained
        <3> QED BY <3>1, <3>2
    <2> QED BY <2>1, <2>2
<1>6. PointersCompared'
    BY <1>1 DEF PointersCompared, ComparedIn, SamePointer
<1> QED BY <1>3, <1>4, <1>5, <1>6

\* A reset forgets records, pointers, transitions and what was answered.
LEMMA ResetKeepsMock == ASSUME Mock, Reset PROVE Mock'
<1> USE MockAssumption DEF Mock
<1>1. /\ seeds' = seeds + 1 /\ seeds < MaxSeeds
      /\ records' = Nothing /\ artifacts' = Nothing /\ events' = <<>>
      /\ failMode' = FailNone /\ origin' = <<>>
      /\ accepted' = [d \in Deployments |-> {}]
      /\ refused' = [d \in Deployments |-> {}]
      /\ UNCHANGED <<inFlight, epoch, seededAs>>
    BY DEF Reset, ClearState
<1>2. TypeOK'
    BY <1>1 DEF TypeOK, Nothing
<1>3. EpochsArePast'
    BY <1>1 DEF EpochsArePast, TypeOK
<1>4. TrailExplainsStatus'
    BY <1>1 DEF TrailExplainsStatus, Nothing
<1>5. PointersCompared'
    BY <1>1 DEF PointersCompared, ComparedIn, Nothing
<1> QED BY <1>2, <1>3, <1>4, <1>5

\* A compare-and-set starts where the trail of its deployment ended.
LEMMA PatchKeepsMock ==
    ASSUME Mock, NEW c \in Connections, PatchStatus(c)
    PROVE  Mock'
<1> USE DEF Mock
<1> DEFINE r == inFlight[c].request
           n == Len(events)
<1>1. /\ inFlight[c] # None /\ r.kind = "patch"
      /\ records[r.id] # None /\ records[r.id] = r.from
      /\ records' = [records EXCEPT ![r.id] = r.to]
      /\ events' = Append(events, <<r.from, r.to>>)
      /\ origin' = Append(origin, <<r.id, epoch[r.id]>>)
      /\ Answered(c)
      /\ UNCHANGED <<artifacts, failMode, epoch, seededAs, seeds, accepted, refused>>
    BY DEF PatchStatus, Handling, Current, Known, pointers
<1>2. r.id \in Deployments /\ r.from \in Statuses /\ r.to \in Statuses
    BY <1>1, InFlightRequest, RequestFields
<1>3. /\ n \in Nat /\ Len(origin) = n /\ DOMAIN events = 1 .. n
      /\ DOMAIN events' = 1 .. n + 1 /\ Len(events') = n + 1 /\ Len(origin') = n + 1
      /\ events'[n + 1] = <<r.from, r.to>>
      /\ origin'[n + 1] = <<r.id, epoch[r.id]>>
      /\ \A i \in 1 .. n : events'[i] = events[i] /\ origin'[i] = origin[i]
    BY <1>1, <1>2 DEF TypeOK, EpochsArePast
<1>4. TypeOK'
    <2>1. epoch[r.id] \in 0 .. MaxSeeds
        BY <1>2 DEF TypeOK
    <2>2. origin' \in Seq(Deployments \X (0 .. MaxSeeds))
        BY <1>1, <1>2, <2>1 DEF TypeOK
    <2>3. events' \in Seq(Statuses \X Statuses)
        BY <1>1, <1>2 DEF TypeOK
    <2>4. records' \in [Deployments -> Statuses \cup {None}]
        BY <1>1, <1>2 DEF TypeOK
    <2>5. \A d \in Deployments :
             epoch'[d] = 0 => records'[d] = None /\ artifacts'[d] = None
        BY <1>1, <1>2 DEF TypeOK
    <2> QED BY <1>1, <2>2, <2>3, <2>4, <2>5, AnsweredIsFree DEF TypeOK
<1>5. EpochsArePast'
    <2>1. \A d \in Deployments : epoch[d] \in Nat
        BY DEF TypeOK
    <2>2. ASSUME NEW i \in 1 .. n + 1, NEW d \in Deployments, origin'[i][1] = d
          PROVE  origin'[i][2] <= epoch[d]
        <3>1. CASE i = n + 1
            BY <1>3, <2>1, <2>2, <3>1
        <3>2. CASE i \in 1 .. n
            BY <1>3, <2>2, <3>2 DEF EpochsArePast
        <3> QED BY <1>3, <3>1, <3>2
    <2> QED BY <1>1, <1>3, <2>2 DEF EpochsArePast
<1>6. TrailExplainsStatus'
    <2> SUFFICES ASSUME NEW d \in Deployments, records'[d] # None
                 PROVE  Explains(Trail(d)', events', seededAs'[d], records'[d])
        BY <1>3, TrailIsExplainedNext
    <2>1. Trail(d) \subseteq 1 .. n
        BY <1>3 DEF Trail
    <2>2. CASE d = r.id
        <3>1. Explains(Trail(d), events, seededAs[d], records[d])
            BY <1>1, <2>2, TrailIsExplained
        <3>2. Trail(d)' = Trail(d) \cup {n + 1}
            BY <1>1, <1>3, <2>2 DEF Trail
        <3>3. records'[d] = r.to /\ records[d] = r.from /\ seededAs'[d] = seededAs[d]
            BY <1>1, <1>2, <2>2 DEF TypeOK
        <3>4. /\ \A i \in Trail(d) : events'[i] = events[i]
              /\ events'[n + 1] = <<records[d], r.to>>
            BY <1>3, <2>1, <3>3
        <3>5. Explains(Trail(d) \cup {n + 1}, events', seededAs[d], r.to)
            BY <1>3, <2>1, <3>1, <3>4, TrailGrows
        <3> QED BY <3>2, <3>3, <3>5
    <2>3. CASE d # r.id
        <3>1. records'[d] = records[d] /\ seededAs'[d] = seededAs[d]
            BY <1>1, <1>2, <2>3 DEF TypeOK
        <3>2. Trail(d)' = Trail(d)
            BY <1>1, <1>3, <2>3 DEF Trail
        <3>3. Explains(Trail(d), events, seededAs[d], records[d])
            BY <3>1, TrailIsExplained
        <3>4. \A i \in Trail(d) : events'[i] = events[i]
            BY <1>3, <2>1
        <3> QED BY <3>1, <3>2, <3>3, <3>4 DEF Explains
    <2> QED BY <2>2, <2>3
<1>7. PointersCompared'
    BY <1>1 DEF PointersCompared, ComparedIn, SamePointer
<1> QED BY <1>4, <1>5, <1>6, <1>7

\* The first pointer is registered, and only that one is accepted again.
LEMMA PostKeepsMock ==
    ASSUME Mock, NEW c \in Connections, PostArtifact(c)
    PROVE  Mock'
<1> USE MockAssumption DEF Mock
<1> DEFINE r == inFlight[c].request
<1>1. /\ inFlight[c] # None /\ r.kind = "post" /\ records[r.id] # None
      /\ \/ artifacts[r.id] = None /\ artifacts' = [artifacts EXCEPT ![r.id] = r.pointer]
         \/ /\ artifacts[r.id] # None /\ SamePointer(artifacts[r.id], r.pointer)
            /\ artifacts' = artifacts
      /\ accepted' = [accepted EXCEPT ![r.id] = @ \cup {r.pointer}]
      /\ Answered(c)
      /\ UNCHANGED <<records, events, failMode, epoch, seededAs, origin, seeds, refused>>
    BY DEF PostArtifact, Handling, Known
<1>2. r.id \in Deployments /\ r.pointer \in Pointer /\ r.pointer # None
    BY <1>1, InFlightRequest, RequestFields
<1>4. TypeOK'
    <2>1. artifacts' \in [Deployments -> Pointer \cup {None}]
        <3>1. artifacts \in [Deployments -> Pointer \cup {None}]
            BY DEF TypeOK
        <3>2. CASE artifacts' = artifacts
            BY <3>1, <3>2
        <3>3. CASE artifacts' = [artifacts EXCEPT ![r.id] = r.pointer]
            BY <1>2, <3>1, <3>3
        <3> QED BY <1>1, <3>2, <3>3
    <2>2. accepted' \in [Deployments -> SUBSET Pointer]
        BY <1>1, <1>2 DEF TypeOK
    <2>3. ASSUME NEW d \in Deployments, epoch[d] = 0
          PROVE  records[d] = None /\ artifacts'[d] = None
        <3>1. records[d] = None /\ artifacts[d] = None
            BY <2>3 DEF TypeOK
        <3>2. d # r.id
            BY <1>1, <3>1
        <3> QED BY <1>1, <3>1, <3>2 DEF TypeOK
    <2> QED BY <1>1, <2>1, <2>2, <2>3, AnsweredIsFree DEF TypeOK
<1>5. EpochsArePast'
    BY <1>1 DEF EpochsArePast
<1>6. TrailExplainsStatus'
    BY <1>1, TrailUntouched
<1>7. PointersCompared'
    <2> SUFFICES ASSUME NEW d \in Deployments
                 PROVE  ComparedIn(d)'
        BY DEF PointersCompared
    <2>1. ComparedIn(d)
        BY DEF PointersCompared
    <2>2. CASE d = r.id
        <3>1. accepted'[d] = accepted[d] \cup {r.pointer} /\ refused'[d] = refused[d]
            BY <1>1, <1>2, <2>2 DEF TypeOK
        <3>2. \/ artifacts[d] = None /\ artifacts'[d] = r.pointer
              \/ /\ artifacts[d] # None /\ SamePointer(artifacts[d], r.pointer)
                 /\ artifacts'[d] = artifacts[d]
            BY <1>1, <1>2, <2>2 DEF TypeOK
        <3> QED BY <1>2, <2>1, <3>1, <3>2 DEF ComparedIn, SamePointer
    <2>3. CASE d # r.id
        <3>1. /\ accepted'[d] = accepted[d] /\ refused'[d] = refused[d]
              /\ artifacts'[d] = artifacts[d]
            BY <1>1, <1>2, <2>3 DEF TypeOK
        <3> QED BY <2>1, <3>1 DEF ComparedIn, SamePointer
    <2> QED BY <2>2, <2>3
<1> QED BY <1>4, <1>5, <1>6, <1>7

\* Another pointer is refused and never becomes the registered one.
LEMMA ConflictKeepsMock ==
    ASSUME Mock, NEW c \in Connections, PostConflict(c)
    PROVE  Mock'
<1> USE MockAssumption DEF Mock
<1> DEFINE r == inFlight[c].request
<1>1. /\ inFlight[c] # None /\ r.kind = "post"
      /\ artifacts[r.id] # None /\ ~SamePointer(artifacts[r.id], r.pointer)
      /\ refused' = [refused EXCEPT ![r.id] = @ \cup {r.pointer}]
      /\ Answered(c)
      /\ UNCHANGED <<records, artifacts, events, failMode, epoch, seededAs, origin,
                     seeds, accepted>>
    BY DEF PostConflict, Handling, state
<1>2. r.id \in Deployments /\ r.pointer \in Pointer
    BY <1>1, InFlightRequest, RequestFields
<1>3. TypeOK'
    <2>1. refused' \in [Deployments -> SUBSET Pointer]
        BY <1>1, <1>2 DEF TypeOK
    <2> QED BY <1>1, <2>1, AnsweredIsFree DEF TypeOK
<1>4. EpochsArePast'
    BY <1>1 DEF EpochsArePast
<1>5. TrailExplainsStatus'
    BY <1>1, TrailUntouched
<1>6. PointersCompared'
    <2> SUFFICES ASSUME NEW d \in Deployments
                 PROVE  ComparedIn(d)'
        BY DEF PointersCompared
    <2>1. ComparedIn(d) /\ accepted'[d] = accepted[d] /\ artifacts'[d] = artifacts[d]
        BY <1>1 DEF PointersCompared
    <2>2. \/ refused'[d] = refused[d]
          \/ /\ refused'[d] = refused[d] \cup {r.pointer}
             /\ artifacts[d] # None /\ ~SamePointer(artifacts[d], r.pointer)
        BY <1>1, <1>2 DEF TypeOK
    <2> QED BY <2>1, <2>2 DEF ComparedIn, SamePointer
<1> QED BY <1>3, <1>4, <1>5, <1>6

\* Every step keeps the invariant.
LEMMA NextKeepsMock == Mock /\ [Next]_vars => Mock'
<1> SUFFICES ASSUME Mock, [Next]_vars PROVE Mock'
    OBVIOUS
<1>1. failMode \in FailModes \cup {FailNone} /\ TypeOK
    BY DEF Mock, TypeOK
<1>2. CASE UNCHANGED vars
    <2>1. /\ UNCHANGED <<state, epoch, seededAs, origin, seeds, pointers>>
          /\ failMode' = failMode /\ inFlight' = inFlight
        BY <1>2 DEF vars
    <2> QED BY <1>1, <2>1, QuietKeepsMock DEF TypeOK
<1>3. ASSUME NEW mode \in FailModes \cup {FailNone}, Control(mode)
      PROVE  Mock'
    BY <1>1, <1>3, QuietKeepsMock DEF Control, TypeOK
<1>4. ASSUME NEW c \in Connections, NEW r \in Requests, Admit(c, r)
      PROVE  Mock'
    <2>1. inFlight' \in [Connections -> {None} \cup
               [request: Requests, mode: FailModes \cup {FailNone}]]
        BY <1>1, <1>4 DEF Admit, TypeOK
    <2> QED BY <1>1, <1>4, <2>1, QuietKeepsMock DEF Admit
<1>5. ASSUME NEW c \in Connections,
             Injected(c) \/ HandleWithoutEffect(c) \/ PatchConflict(c)
      PROVE  Mock'
    <2>1. /\ Answered(c) /\ failMode' = failMode
          /\ UNCHANGED <<state, epoch, seededAs, origin, seeds, pointers>>
        BY <1>5 DEF Injected, HandleWithoutEffect, PatchConflict
    <2> QED BY <1>1, <2>1, AnsweredIsFree, QuietKeepsMock
<1> QED BY <1>2, <1>3, <1>4, <1>5, SeedKeepsMock, ResetKeepsMock, PatchKeepsMock,
           PostKeepsMock, ConflictKeepsMock DEF Next, Answer

\* The invariant holds in every reachable state.
LEMMA MockAlways == Spec => []Mock
BY InitMock, NextKeepsMock, PTL DEF Spec

\* Between two seeds the recorded transitions lead, one after the other, from
\* the seeded status to the present one, whatever was admitted in between
\* (deploymentmock.go:164-171).
THEOREM StatusIsExplained == Spec => [](TypeOK /\ TrailExplainsStatus)
<1>1. Mock => TypeOK /\ TrailExplainsStatus
    BY DEF Mock
<1> QED BY <1>1, MockAlways, PTL

\* Between two resets a deployment has one manifest: every pointer answered 204
\* names the one on record, and none of those is refused when it comes again,
\* unless its text cannot be decoded (deploymentmock.go:207-223).
THEOREM OneManifestEach == Spec => []OneManifest
<1>1. Mock => OneManifest
    BY DEF Mock, PointersCompared, ComparedIn, OneManifest, SameManifest, SamePointer
<1> QED BY <1>1, MockAlways, PTL

------------------------------------------------------------------------------
(***************************************************************************)
(* No transition is claimed twice where none leads back: the statuses have *)
(* a rank and every requested transition raises it.  Then a recorded       *)
(* transition of the trail left a status below the present one, and the    *)
(* next one leaves the present one.                                        *)
(***************************************************************************)
Forward(rank) ==
    /\ rank \in [Statuses -> Nat]
    /\ \A r \in Requests : r.kind = "patch" => rank[r.from] < rank[r.to]

Climbs(rank) ==
    \A d \in Deployments : records[d] # None =>
        \A i \in Trail(d) : rank[events[i][1]] < rank[records[d]]

Claims(rank) == Climbs(rank) /\ ClaimedOnce

\* While its record and its trail are as they were a deployment climbs no more.
LEMMA QuietKeepsClaims ==
    ASSUME NEW rank, Claims(rank), UNCHANGED <<records, events, epoch, origin>>
    PROVE  Claims(rank)'
<1>1. \A d \in Deployments : Trail(d)' = Trail(d)
    BY DEF Trail
<1> QED BY <1>1 DEF Claims, Climbs, ClaimedOnce

\* Seeding begins an empty trail and leaves the others as they are.
LEMMA SeedKeepsClaims ==
    ASSUME NEW rank, Claims(rank), Mock, NEW d \in Deployments, NEW s \in SeedStatuses,
           Seed(d, s)
    PROVE  Claims(rank)'
<1>1. /\ records' = [records EXCEPT ![d] = s]
      /\ epoch' = [epoch EXCEPT ![d] = @ + 1]
      /\ UNCHANGED <<events, origin>>
    BY DEF Seed
<1>2. Trail(d)' = {}
    <2> SUFFICES ASSUME NEW i \in DOMAIN events, origin[i] = <<d, epoch[d] + 1>>
                 PROVE  FALSE
        BY <1>1 DEF Trail, Mock, TypeOK
    <2>1. origin[i][2] <= epoch[d]
        BY DEF Mock, EpochsArePast
    <2>2. epoch[d] \in Nat
        BY DEF Mock, TypeOK
    <2> QED BY <2>1, <2>2
<1>3. \A e \in Deployments : e # d => Trail(e)' = Trail(e) /\ records'[e] = records[e]
    BY <1>1 DEF Trail, Mock, TypeOK
<1> QED BY <1>1, <1>2, <1>3 DEF Claims, Climbs, ClaimedOnce

\* A transition leaves the present status, which no transition of the trail has
\* left, for one above it.
LEMMA PatchKeepsClaims ==
    ASSUME NEW rank, Forward(rank), Claims(rank), Mock, NEW c \in Connections,
           PatchStatus(c)
    PROVE  Claims(rank)'
<1> DEFINE r == inFlight[c].request
           n == Len(events)
<1>1. /\ inFlight[c] # None /\ r.kind = "patch"
      /\ records[r.id] # None /\ records[r.id] = r.from
      /\ records' = [records EXCEPT ![r.id] = r.to]
      /\ events' = Append(events, <<r.from, r.to>>)
      /\ origin' = Append(origin, <<r.id, epoch[r.id]>>)
      /\ epoch' = epoch
    BY DEF PatchStatus, Handling, Current, Known
<1>2. /\ r.id \in Deployments /\ r.from \in Statuses /\ r.to \in Statuses
      /\ r \in Requests
    BY <1>1, InFlightRequest, RequestFields DEF Mock
<1>3. /\ n \in Nat /\ DOMAIN events = 1 .. n /\ DOMAIN events' = 1 .. n + 1
      /\ events'[n + 1] = <<r.from, r.to>>
      /\ origin'[n + 1] = <<r.id, epoch[r.id]>>
      /\ \A i \in 1 .. n : events'[i] = events[i] /\ origin'[i] = origin[i]
      /\ epoch' = epoch
    BY <1>1, <1>2 DEF Mock, TypeOK, EpochsArePast
<1>4. rank[r.from] \in Nat /\ rank[r.to] \in Nat /\ rank[r.from] < rank[r.to]
    BY <1>1, <1>2 DEF Forward
<1>5. ASSUME NEW d \in Deployments, d # r.id
      PROVE  /\ Trail(d)' = Trail(d)
             /\ records'[d] = records[d]
             /\ \A i \in Trail(d) : events'[i] = events[i]
    <2>1. n + 1 \notin Trail(d)'
        BY <1>3, <1>5 DEF Trail
    <2>2. \A i \in 1 .. n : i \in Trail(d)' <=> i \in Trail(d)
        BY <1>3 DEF Trail
    <2>3. Trail(d) \subseteq 1 .. n /\ Trail(d)' \subseteq 1 .. n + 1
        BY <1>3 DEF Trail
    <2>4. Trail(d)' = Trail(d)
        <3>1. \A i \in 1 .. n + 1 : i \in 1 .. n \/ i = n + 1
            BY <1>3
        <3> QED BY <2>1, <2>2, <2>3, <3>1, Zenon
    <2>5. records'[d] = records[d]
        BY <1>1, <1>2, <1>5 DEF Mock, TypeOK
    <2>6. \A i \in Trail(d) : events'[i] = events[i]
        BY <1>3, <2>3
    <2> QED BY <2>4, <2>5, <2>6
<1>6. ASSUME NEW d \in Deployments, d = r.id
      PROVE  /\ \A i \in Trail(d)' : i \in Trail(d) \/ i = n + 1
             /\ Trail(d) \subseteq 1 .. n
             /\ records'[d] = r.to
    <2>1. Trail(d) \subseteq 1 .. n /\ Trail(d)' \subseteq 1 .. n + 1
        BY <1>3 DEF Trail
    <2>2. \A i \in 1 .. n : i \in Trail(d)' <=> i \in Trail(d)
        BY <1>3 DEF Trail
    <2>3. records'[d] = r.to
        BY <1>1, <1>2, <1>6 DEF Mock, TypeOK
    <2> QED BY <1>3, <2>1, <2>2, <2>3
<1>7. ASSUME NEW d \in Deployments, d = r.id, NEW i \in Trail(d)
      PROVE  /\ events'[i] = events[i]
             /\ rank[events[i][1]] \in Nat
             /\ rank[events[i][1]] < rank[r.from]
    <2>1. i \in 1 .. n /\ events'[i] = events[i]
        BY <1>3, <1>6, <1>7
    <2>2. events[i][1] \in Statuses
        BY <1>3, <2>1 DEF Mock, TypeOK
    <2> QED BY <1>1, <1>2, <1>7, <2>1, <2>2 DEF Claims, Climbs, Forward
<1>8. ASSUME NEW d \in Deployments, records'[d] # None, NEW i \in Trail(d)'
      PROVE  rank[events'[i][1]] < rank[records'[d]]
    <2>1. CASE d = r.id /\ i = n + 1
        BY <1>3, <1>4, <1>6, <2>1
    <2>2. CASE d = r.id /\ i # n + 1
        <3>1. i \in Trail(d) /\ records'[d] = r.to
            BY <1>6, <1>8, <2>2
        <3>2. rank[events'[i][1]] \in Nat /\ rank[events'[i][1]] < rank[r.from]
            BY <1>7, <2>2, <3>1
        <3> QED BY <1>4, <3>1, <3>2
    <2>3. CASE d # r.id
        BY <1>5, <1>8, <2>3 DEF Claims, Climbs
    <2> QED BY <2>1, <2>2, <2>3
<1>9. ASSUME NEW d \in Deployments, records'[d] # None,
             NEW i \in Trail(d)', NEW j \in Trail(d)', events'[i][1] = events'[j][1]
      PROVE  i = j
    <2>1. CASE d = r.id
        <3>1. \A k \in Trail(d) : events'[k][1] # events'[n + 1][1]
            BY <1>3, <1>4, <1>7, <2>1
        <3>2. (i \in Trail(d) \/ i = n + 1) /\ (j \in Trail(d) \/ j = n + 1)
            BY <1>6, <1>9, <2>1
        <3>3. CASE i \in Trail(d) /\ j \in Trail(d)
            BY <1>1, <1>7, <1>9, <2>1, <3>3 DEF Claims, ClaimedOnce
        <3>4. CASE i \notin Trail(d) \/ j \notin Trail(d)
            BY <1>9, <3>1, <3>2, <3>4
        <3> QED BY <3>3, <3>4
    <2>2. CASE d # r.id
        BY <1>5, <1>9, <2>2 DEF Claims, ClaimedOnce
    <2> QED BY <2>1, <2>2
<1>10. Climbs(rank)'
    BY <1>8 DEF Climbs
<1>11. ClaimedOnce'
    BY <1>9 DEF ClaimedOnce
<1> QED BY <1>10, <1>11 DEF Claims

\* Of all the workers that race to move a deployment on from one status only one
\* is told that it did, where the transitions that are asked for lead forward
\* (deploymentmock.go:157-171).
THEOREM ClaimedForward ==
    ASSUME NEW rank, Forward(rank)
    PROVE  Spec => []ClaimedOnce
<1>1. Init => Claims(rank)
    BY DEF Init, Nothing, Claims, Climbs, ClaimedOnce
<1>2. Mock /\ Claims(rank) /\ [Next]_vars => Claims(rank)'
    <2> SUFFICES ASSUME Mock, Claims(rank), [Next]_vars
                 PROVE  Claims(rank)'
        OBVIOUS
    <2>1. ASSUME Reset
          PROVE  Claims(rank)'
        <3>1. records' = Nothing
            BY <2>1 DEF Reset, ClearState
        <3> QED BY <3>1 DEF Nothing, Claims, Climbs, ClaimedOnce
    <2>2. ASSUME UNCHANGED <<records, events, epoch, origin>>
          PROVE  Claims(rank)'
        BY <2>2, QuietKeepsClaims
    <2>3. ASSUME NEW mode \in FailModes \cup {FailNone}, Control(mode)
          PROVE  Claims(rank)'
        BY <2>2, <2>3 DEF Control, state
    <2>4. ASSUME NEW c \in Connections, NEW r \in Requests, Admit(c, r)
          PROVE  Claims(rank)'
        BY <2>2, <2>4 DEF Admit, state
    <2>5. ASSUME NEW c \in Connections,
                 \/ Injected(c) \/ HandleWithoutEffect(c) \/ PatchConflict(c)
                 \/ PostArtifact(c) \/ PostConflict(c)
          PROVE  Claims(rank)'
        BY <2>2, <2>5 DEF Injected, HandleWithoutEffect, PatchConflict, PostArtifact,
                          PostConflict, state
    <2>6. CASE UNCHANGED vars
        BY <2>2, <2>6 DEF vars, state
    <2> QED BY <2>1, <2>3, <2>4, <2>5, <2>6, SeedKeepsClaims, PatchKeepsClaims
            DEF Next, Answer
<1>3. Claims(rank) => ClaimedOnce
    BY DEF Claims
<1> QED BY <1>1, <1>2, <1>3, MockAlways, PTL DEF Spec
=============================================================================
