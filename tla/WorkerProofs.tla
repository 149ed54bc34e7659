----------------------------- MODULE WorkerProofs -----------------------------
(***************************************************************************)
(* Proofs about the three parts of the fake worker, which share its mutex  *)
(* and none of its maps, for every value of their constants.               *)
(*                                                                         *)
(* WorkerFence: the generation orders the leases, so a superseded fence    *)
(* never returns and each lease commits at most once.                      *)
(* WorkerInbox: the record of events has no gaps, what was acknowledged is *)
(* on record, all callers of one key are told one outcome, and every step  *)
(* is a step of OrderedDelivery or none.  That all events arrive is        *)
(* liveness and is checked by TLC.                                         *)
(* WorkerUsage: an observation is recorded under its own key only, and the *)
(* total lies between what the largest and what the single amounts of the  *)
(* attempts add up to.                                                     *)
(***************************************************************************)
EXTENDS WorkerFence, WorkerInbox, WorkerUsage, FiniteSumsProofs

------------------------------------------------------------------------------
(* WorkerFence *)

\* The inductive invariant: a commit can be told from the ones before it only
\* because its fence has a later generation than every fence issued before.
Leases == TypeOK /\ FenceIsNeverReissued /\ OneCommitPerLease

------------------------------------------------------------------------------
\* The fields of a fence.
LEMMA FenceFields ==
    ASSUME NEW f \in Fence
    PROVE  f.generation \in Nat /\ f.generation \in 1 .. MaxGeneration
           /\ f.expires \in Times /\ f.recovery \in RecoveryEpochs
           /\ f.attempt \in AttemptIDs /\ f.lease \in LeaseEpochs
BY BoundsAssumption DEF Fence

\* The fence of a restored lease is a fence, one generation later.
LEMMA SupersedingIsLater ==
    ASSUME NEW f \in Fence, NEW next \in RecoveryEpochs,
           f.generation < MaxGeneration
    PROVE  /\ Superseding(f, next) \in Fence
           /\ Superseding(f, next).generation = f.generation + 1
<1> DEFINE later == f.generation + 1
<1>1. later \in 1 .. MaxGeneration
  BY FenceFields, BoundsAssumption
<1>2. Superseding(f, next) =
          [f EXCEPT !.recovery = next, !.generation = later, !.lease = 1]
  BY DEF Superseding
<1> HIDE DEF later
<1>3. /\ Superseding(f, next) \in Fence
      /\ Superseding(f, next).generation = later
  BY <1>1, <1>2, FenceAssumption DEF Fence
<1> QED
  BY <1>3 DEF later

\* The first lease was never superseded and committed nothing.
LEMMA LeasesInit == Init => Leases
<1> SUFFICES ASSUME Init PROVE Leases
  OBVIOUS
<1>1. TypeOK
  <2>1. active \in Fence /\ now \in Times /\ issued \subseteq Fence
    BY FenceAssumption, BoundsAssumption DEF Init, Times
  <2>2. artifacts \in [Digests -> States]
    BY DEF Init, States
  <2>3. commits \in Seq(Fence \X Times)
    BY DEF Init
  <2> QED
    BY <2>1, <2>2, <2>3 DEF Init, TypeOK
<1>2. FenceIsNeverReissued
  BY FenceFields, FenceAssumption DEF Init, FenceIsNeverReissued
<1>3. OneCommitPerLease
  BY DEF Init, OneCommitPerLease
<1> QED
  BY <1>1, <1>2, <1>3 DEF Leases

\* A restore issues a fence that no commit can have been made under.
LEMMA RestoreKeepsLeases ==
    ASSUME Leases, NEW next \in RecoveryEpochs, Restore(next)
    PROVE  Leases'
<1>1. /\ active \in Fence /\ active' = Superseding(active, next)
      /\ active' \in Fence /\ active'.generation = active.generation + 1
      /\ committed' = FALSE /\ issued' = issued \cup {active'}
      /\ commits' = commits
  BY SupersedingIsLater DEF Leases, TypeOK, Restore, RestoreLease
<1>2. \A f \in issued : f \in Fence /\ f.generation \in Nat
                        /\ f.generation < active'.generation
  BY <1>1, FenceFields DEF Leases, TypeOK, FenceIsNeverReissued
<1>3. TypeOK'
  BY <1>1 DEF Leases, TypeOK, Restore, RestoreLease
<1>4. FenceIsNeverReissued'
  <2>1. \A f \in issued' : f.generation <= active'.generation
    BY <1>1, <1>2, FenceFields
  <2>2. ASSUME NEW f \in issued', NEW g \in issued', f.generation = g.generation
        PROVE  f = g
    BY <1>1, <1>2, <2>2, FenceFields DEF Leases, FenceIsNeverReissued
  <2> QED
    BY <1>1, <2>1, <2>2 DEF FenceIsNeverReissued
<1>5. OneCommitPerLease'
  <2>1. \A i \in DOMAIN commits : commits[i][1] \in issued
    BY DEF Leases, OneCommitPerLease
  <2>2. \A i \in DOMAIN commits : commits[i][1] # active'
    BY <1>1, <1>2, <2>1, FenceFields
  <2> QED
    BY <1>1, <2>1, <2>2 DEF Leases, OneCommitPerLease
<1> QED
  BY <1>3, <1>4, <1>5 DEF Leases

\* A result is committed after all the commits of earlier leases, and once.
LEMMA AcceptKeepsLeases ==
    ASSUME Leases, NEW f \in Fence, AcceptResult(f)
    PROVE  Leases'
<1>1. /\ f = active /\ now < f.expires /\ ~committed /\ committed'
      /\ commits' = Append(commits, <<f, now>>)
      /\ active' = active /\ issued' = issued
  BY DEF AcceptResult, Accepted, Uncommitted
<1>2. commits \in Seq(Fence \X Times) /\ <<f, now>> \in Fence \X Times
  BY DEF Leases, TypeOK
<1>3. TypeOK'
  <2>1. commits' \in Seq(Fence \X Times)
    BY <1>1, <1>2
  <2> QED
    BY <1>1, <2>1 DEF Leases, TypeOK, AcceptResult
<1>4. FenceIsNeverReissued'
  BY <1>1 DEF Leases, FenceIsNeverReissued
<1>5. \A i \in DOMAIN commits : /\ commits[i][1] \in issued
                                /\ commits[i][1].generation < f.generation
  <2> TAKE i \in DOMAIN commits
  <2>1. commits[i][1] \in issued /\ commits[i][1] # active
    BY <1>1 DEF Leases, OneCommitPerLease
  <2>2. commits[i][1].generation <= active.generation
        /\ commits[i][1].generation # active.generation
    BY <2>1 DEF Leases, FenceIsNeverReissued
  <2>3. commits[i][1].generation \in Nat /\ active.generation \in Nat
    BY <2>1, FenceFields DEF Leases, TypeOK
  <2> QED
    BY <1>1, <2>1, <2>2, <2>3
<1>6. OneCommitPerLease'
  <2> DEFINE n == Len(commits) + 1
  <2>1. /\ DOMAIN commits = 1 .. Len(commits) /\ Len(commits) \in Nat
        /\ DOMAIN commits' = 1 .. n
        /\ commits'[n] = <<f, now>>
        /\ \A i \in DOMAIN commits : commits'[i] = commits[i]
    BY <1>1, <1>2
  <2>2. \A i, j \in DOMAIN commits' :
            i < j => commits'[i][1].generation < commits'[j][1].generation
    <3> SUFFICES ASSUME NEW i \in DOMAIN commits', NEW j \in DOMAIN commits', i < j
                 PROVE  commits'[i][1].generation < commits'[j][1].generation
      OBVIOUS
    <3>1. i \in DOMAIN commits
      BY <2>1
    <3>2. CASE j = n
      BY <1>5, <2>1, <3>1, <3>2
    <3>3. CASE j \in DOMAIN commits
      BY <2>1, <3>1, <3>3 DEF Leases, OneCommitPerLease
    <3> QED
      BY <2>1, <3>2, <3>3
  <2>3. \A i \in DOMAIN commits' :
            commits'[i][1] \in issued' /\ commits'[i][2] < commits'[i][1].expires
    <3> SUFFICES ASSUME NEW i \in DOMAIN commits'
                 PROVE  commits'[i][1] \in issued'
                        /\ commits'[i][2] < commits'[i][1].expires
      OBVIOUS
    <3>1. CASE i = n
      BY <1>1, <2>1, <3>1 DEF Leases, FenceIsNeverReissued
    <3>2. CASE i \in DOMAIN commits
      BY <1>1, <2>1, <3>2 DEF Leases, OneCommitPerLease
    <3> QED
      BY <2>1, <3>1, <3>2
  <2>4. committed' <=> \E i \in DOMAIN commits' : commits'[i][1] = active'
    BY <1>1, <2>1
  <2> QED
    BY <2>2, <2>3, <2>4 DEF OneCommitPerLease
<1> QED
  BY <1>3, <1>4, <1>6 DEF Leases

\* Every step of the worker keeps the leases in order.
LEMMA LeasesStep == Leases /\ [Next]_vars => Leases'
<1> SUFFICES ASSUME Leases, [Next]_vars PROVE Leases'
  OBVIOUS
<1> USE DEF Leases
<1>0. ASSUME UNCHANGED <<lease, issued, commits>>, TypeOK' PROVE Leases'
  BY <1>0 DEF FenceIsNeverReissued, OneCommitPerLease, lease
<1>1. CASE Tick
  BY <1>0, <1>1, BoundsAssumption DEF Tick, TypeOK, Times, lease
<1>2. ASSUME NEW next \in RecoveryEpochs, Restore(next) PROVE Leases'
  BY <1>2, RestoreKeepsLeases
<1>3. CASE Cancel
  BY <1>3 DEF Cancel, TypeOK, FenceIsNeverReissued, OneCommitPerLease
<1>4. CASE Drain
  BY <1>4 DEF Drain, TypeOK, FenceIsNeverReissued, OneCommitPerLease
<1>5. ASSUME NEW f \in Fence, Execute(f) PROVE Leases'
  BY <1>0, <1>5 DEF Execute, TypeOK, lease
<1>6. ASSUME NEW f \in Fence, AcceptResult(f) PROVE Leases'
  BY <1>6, AcceptKeepsLeases
<1>7. ASSUME NEW d \in Digests, PutArtifact(d) PROVE Leases'
  <2>1. TypeOK'
    BY <1>7 DEF PutArtifact, TypeOK, States, lease
  <2> QED
    BY <1>0, <1>7, <2>1 DEF PutArtifact
<1>8. ASSUME NEW d \in Digests, NEW f \in Fence, NEW s \in States,
             TransitionArtifact(d, f, s)
      PROVE  Leases'
  <2>1. TypeOK'
    BY <1>8 DEF TransitionArtifact, TypeOK, lease
  <2> QED
    BY <1>0, <1>8, <2>1 DEF TransitionArtifact
<1>9. CASE UNCHANGED vars
  BY <1>9 DEF vars, TypeOK, lease, FenceIsNeverReissued, OneCommitPerLease
<1> QED
  BY <1>1, <1>2, <1>3, <1>4, <1>5, <1>6, <1>7, <1>8, <1>9 DEF Next

\* The invariant holds in every behaviour.
LEMMA LeasesHold == Spec => []Leases
BY LeasesInit, LeasesStep, PTL DEF Spec

\* A superseded fence is never active again, also where the recovery epoch is
\* repeated (worker.go:101-108).
THEOREM FencesNeverReturn == Spec => []FenceIsNeverReissued
<1>1. Leases => FenceIsNeverReissued
  BY DEF Leases
<1> QED
  BY <1>1, LeasesHold, PTL

\* Each lease commits at most one result, in the order of the leases and before
\* it expires (worker.go:147-164).
THEOREM LeasesAreFenced == Spec => [](TypeOK /\ OneCommitPerLease)
<1>1. Leases => TypeOK /\ OneCommitPerLease
  BY DEF Leases
<1> QED
  BY <1>1, LeasesHold, PTL

\* An artifact that was quarantined, revoked or deleted once is not readable
\* ever after, whoever moves it and under whatever fence (worker.go:233-265).
THEOREM WithheldForGood == Spec => []WithheldIsNeverReadable
<1> DEFINE Sound == withheld \subseteq Digests /\ WithheldIsNeverReadable
                    /\ artifacts \in [Digests -> States]
<1>1. Init => Sound
  BY DEF Init, WithheldIsNeverReadable, States
<1>2. Sound /\ [Next]_vars => Sound'
  <2> SUFFICES ASSUME Sound, [Next]_vars PROVE Sound'
    OBVIOUS
  <2>1. ASSUME UNCHANGED <<artifacts, withheld>> PROVE Sound'
    BY <2>1 DEF WithheldIsNeverReadable
  <2>2. ASSUME NEW d \in Digests, PutArtifact(d) PROVE Sound'
    BY <2>2 DEF PutArtifact, WithheldIsNeverReadable, States
  <2>3. ASSUME NEW d \in Digests, NEW f \in Fence, NEW s \in States,
               TransitionArtifact(d, f, s)
        PROVE  Sound'
    <3>1. artifacts' = [artifacts EXCEPT ![d] = s]
          /\ <<artifacts[d], s>> \in Allowed
      BY <2>3 DEF TransitionArtifact
    <3>2. artifacts[d] \in {"quarantined", "revoked", "deleted"}
              => s = "deleted"
      BY <3>1 DEF Allowed
    <3>3. withheld' = IF s \in {"quarantined", "revoked", "deleted"}
                      THEN withheld \cup {d} ELSE withheld
      BY <2>3 DEF TransitionArtifact
    <3> QED
      BY <3>1, <3>2, <3>3 DEF WithheldIsNeverReadable
  <2> QED
    BY <2>1, <2>2, <2>3 DEF Next, Tick, Restore, Cancel, Drain, Execute,
                            AcceptResult, vars
<1> QED
  BY <1>1, <1>2, PTL DEF Spec

\* A cancellation is for good: after it nothing is executed and nothing commits,
\* also under the leases of later restores (worker.go:126, 150).
THEOREM CancelledForGood == Spec => CancelIsForGood
<1>1. [Next]_vars =>
        [cancelled => cancelled' /\ executed' = executed /\ commits' = commits]_vars
  <2> SUFFICES ASSUME [Next]_vars, cancelled
               PROVE  cancelled' /\ executed' = executed /\ commits' = commits
    OBVIOUS
  <2> USE DEF lease
  <2>1. CASE Tick
    BY <2>1 DEF Tick
  <2>2. ASSUME NEW next \in RecoveryEpochs, Restore(next)
        PROVE  cancelled' /\ executed' = executed /\ commits' = commits
    BY <2>2 DEF Restore, RestoreLease
  <2>3. CASE Cancel
    BY <2>3 DEF Cancel
  <2>4. CASE Drain
    BY <2>4 DEF Drain
  <2>5. \A f \in Fence : ~Execute(f) /\ ~AcceptResult(f)
    BY DEF Execute, AcceptResult, Accepted
  <2>6. ASSUME NEW d \in Digests, PutArtifact(d)
        PROVE  cancelled' /\ executed' = executed /\ commits' = commits
    BY <2>6 DEF PutArtifact
  <2>7. ASSUME NEW d \in Digests, NEW f \in Fence, NEW s \in States,
               TransitionArtifact(d, f, s)
        PROVE  cancelled' /\ executed' = executed /\ commits' = commits
    BY <2>7 DEF TransitionArtifact
  <2>8. CASE UNCHANGED vars
    BY <2>8 DEF vars
  <2> QED
    BY <2>1, <2>2, <2>3, <2>4, <2>5, <2>6, <2>7, <2>8 DEF Next
<1> QED
  BY <1>1, PTL DEF Spec, CancelIsForGood

------------------------------------------------------------------------------
(* WorkerInbox *)

\* Every message on the way is one that was published, under its own number.
NetworkIsPublished ==
    \A m \in network : /\ m.id = m.sequence
                       /\ m.id <= published

\* The publisher holds bytes for what it has published.
LogIsFilled == \A i \in IDs : i <= published => log[i] \in Encodings

\* What took effect is the sequence of the first lastSequence numbers.
DeliveredInOrder ==
    /\ lastSequence <= published
    /\ delivered = [i \in 1 .. lastSequence |-> i]

\* The inductive invariant.
Inbox == /\ InboxTypeOK
         /\ NetworkIsPublished
         /\ LogIsFilled
         /\ DeliveredInOrder
         /\ NoGapOnRecord
         /\ AcknowledgedIsRecorded
         /\ FirstOutcomeWins

------------------------------------------------------------------------------
\* Nothing has happened yet, so nothing can be wrong.
LEMMA InitInbox == InboxInit => Inbox
<1> SUFFICES ASSUME InboxInit PROVE Inbox
    OBVIOUS
<1> USE InboxAssumption DEF InboxInit, IDs
<1>1. InboxTypeOK
    BY DEF InboxTypeOK
<1>2. NetworkIsPublished /\ LogIsFilled
    BY DEF NetworkIsPublished, LogIsFilled
<1>3. DeliveredInOrder
    BY DEF DeliveredInOrder
<1>4. NoGapOnRecord
    BY DEF NoGapOnRecord
<1>5. AcknowledgedIsRecorded /\ FirstOutcomeWins
    BY DEF AcknowledgedIsRecorded, FirstOutcomeWins
<1> QED BY <1>1, <1>2, <1>3, <1>4, <1>5 DEF Inbox

------------------------------------------------------------------------------
\* Steps of the publisher and the network leave the worker as it is.
LEMMA OutsideKeepsInbox ==
    ASSUME Inbox,
           \/ \E b \in Encodings : Publish(b)
           \/ \E i \in IDs, t \in BOOLEAN : Send(i, t)
           \/ \E i \in IDs, b \in Encodings : Rebuild(i, b)
           \/ \E m \in network : Lose(m)
    PROVE  Inbox'
<1> USE InboxAssumption DEF Inbox
<1>1. UNCHANGED <<inbox, requests>>
    BY DEF Publish, Send, Rebuild, Lose
<1>2. /\ NoGapOnRecord' /\ AcknowledgedIsRecorded' /\ FirstOutcomeWins'
    BY <1>1 DEF NoGapOnRecord, AcknowledgedIsRecorded, FirstOutcomeWins,
                inbox, requests
<1>3. /\ InboxTypeOK' /\ NetworkIsPublished' /\ LogIsFilled' /\ DeliveredInOrder'
    <2> USE <1>1 DEF inbox, requests, InboxTypeOK, NetworkIsPublished, LogIsFilled,
                     DeliveredInOrder, IDs, publisher
    <2>1. CASE \E b \in Encodings : Publish(b)
        <3> PICK b \in Encodings : Publish(b)
            BY <2>1
        <3>1. /\ published < MaxEvents /\ published' = published + 1
              /\ log' = [log EXCEPT ![published + 1] = b] /\ network' = network
            BY DEF Publish
        <3>2. InboxTypeOK' /\ DeliveredInOrder'
            BY <3>1
        <3>3. LogIsFilled'
            BY <3>1
        <3>4. NetworkIsPublished'
            BY <3>1 DEF Message
        <3> QED BY <3>2, <3>3, <3>4
    <2>2. CASE \E i \in IDs, t \in BOOLEAN : Send(i, t)
        <3> PICK i \in IDs, t \in BOOLEAN : Send(i, t)
            BY <2>2
        <3>1. /\ i <= published /\ network' = network \cup {Packet(i, t)}
              /\ published' = published /\ log' = log
            BY DEF Send
        <3>2. Packet(i, t) \in Message /\ Packet(i, t).id = i
                /\ Packet(i, t).sequence = i
            BY <3>1 DEF Packet, Message
        <3> QED BY <3>1, <3>2
    <2>3. CASE \E i \in IDs, b \in Encodings : Rebuild(i, b)
        BY <2>3 DEF Rebuild
    <2>4. CASE \E m \in network : Lose(m)
        BY <2>4 DEF Lose
    <2> QED BY <2>1, <2>2, <2>3, <2>4
<1> QED BY <1>2, <1>3

\* What a delivery in sequence does to the sequence of delivered events.
LEMMA DeliveryAppends ==
    ASSUME Inbox, NEW m \in network, DeliverEvent(m)
    PROVE  /\ m.id = lastSequence + 1
           /\ m.id \in IDs
           /\ Len(delivered) = lastSequence
           /\ lastSequence < published
           /\ delivered' = [i \in 1 .. lastSequence + 1 |-> i]
<1> USE InboxAssumption DEF Inbox
<1>1. /\ m \in Message /\ m.id = lastSequence + 1 /\ m.id <= published
      /\ lastSequence \in Nat /\ delivered' = Append(delivered, m.id)
    BY DEF DeliverEvent, InSequence, NetworkIsPublished, InboxTypeOK
<1>2. delivered = [i \in 1 .. lastSequence |-> i]
    BY DEF DeliveredInOrder
<1>3. Len(delivered) = lastSequence
    BY <1>1, <1>2
<1>4. delivered' = [i \in 1 .. lastSequence + 1 |-> i]
    BY <1>1, <1>2, <1>3
<1>5. m.id \in IDs /\ lastSequence < published
    BY <1>1 DEF Message, InboxTypeOK
<1> QED BY <1>1, <1>3, <1>4, <1>5

\* The next event in sequence extends the record by one; nothing that was
\* acknowledged before is touched.
LEMMA DeliverKeepsInbox ==
    ASSUME Inbox, NEW m \in network, DeliverEvent(m)
    PROVE  Inbox'
<1> USE InboxAssumption DEF Inbox
<1>1. /\ m.id = lastSequence + 1 /\ m.id \in IDs /\ lastSequence < published
      /\ delivered' = [i \in 1 .. lastSequence + 1 |-> i]
    BY DeliveryAppends
<1>2. /\ m \in Message /\ m.sequence = m.id /\ m.trace /\ events[m.id] = None
      /\ lastSequence' = lastSequence + 1
      /\ events' = [events EXCEPT ![m.id] = m]
      /\ acked' = acked \cup {<<m.id, m.bytes>>}
      /\ UNCHANGED <<publisher, network, requests>>
    BY <1>1 DEF DeliverEvent, Unseen, InSequence, Traced, NetworkIsPublished, InboxTypeOK
<1>3. m # None /\ m.bytes \in Encodings
    BY <1>2 DEF Message
<1>4. InboxTypeOK'
    <2>1. delivered' \in Seq(IDs)
        BY <1>1 DEF InboxTypeOK, DeliverEvent, IDs
    <2> QED BY <1>1, <1>2, <1>3, <2>1
            DEF InboxTypeOK, IDs, publisher, requests
<1>5. NetworkIsPublished' /\ LogIsFilled' /\ DeliveredInOrder'
    BY <1>1, <1>2 DEF NetworkIsPublished, LogIsFilled, DeliveredInOrder,
                      publisher, InboxTypeOK
<1>6. NoGapOnRecord'
    <2> SUFFICES ASSUME NEW i \in IDs
                 PROVE  /\ events'[i] # None <=> i <= lastSequence'
                        /\ events'[i] # None =>
                              events'[i].sequence = i /\ events'[i].trace
        BY DEF NoGapOnRecord
    <2>1. CASE i = m.id
        BY <1>1, <1>2, <1>3, <2>1 DEF InboxTypeOK
    <2>2. CASE i # m.id
        <3>1. events'[i] = events[i]
            BY <1>2, <2>2 DEF InboxTypeOK
        <3>2. i <= lastSequence' <=> i <= lastSequence
            BY <1>1, <1>2, <2>2 DEF InboxTypeOK, IDs
        <3> QED BY <3>1, <3>2 DEF NoGapOnRecord
    <2> QED BY <2>1, <2>2
<1>7. AcknowledgedIsRecorded'
    <2> SUFFICES ASSUME NEW a \in acked'
                 PROVE  events'[a[1]] # None /\ events'[a[1]].bytes = a[2]
        BY DEF AcknowledgedIsRecorded
    <2>1. CASE a = <<m.id, m.bytes>>
        BY <1>1, <1>2, <1>3, <2>1 DEF InboxTypeOK
    <2>2. CASE a \in acked
        <3>1. a[1] \in IDs /\ events[a[1]] # None /\ events[a[1]].bytes = a[2]
            BY <2>2 DEF AcknowledgedIsRecorded, InboxTypeOK
        <3>2. events'[a[1]] = events[a[1]]
            BY <1>2, <3>1 DEF InboxTypeOK
        <3> QED BY <3>1, <3>2
    <2> QED BY <1>2, <2>1, <2>2
<1>8. FirstOutcomeWins'
    BY <1>2 DEF FirstOutcomeWins, requests
<1> QED BY <1>4, <1>5, <1>6, <1>7, <1>8

\* A duplicate is acknowledged with the bytes on record and changes nothing.
LEMMA DuplicateKeepsInbox ==
    ASSUME Inbox, NEW m \in network, DeliverDuplicate(m)
    PROVE  Inbox'
<1> USE InboxAssumption DEF Inbox
<1>1. /\ m \in Message /\ events[m.id] # None /\ events[m.id].bytes = m.bytes
      /\ acked' = acked \cup {<<m.id, m.bytes>>}
      /\ UNCHANGED <<publisher, network, events, lastSequence, delivered, requests>>
    BY DEF DeliverDuplicate, Unseen, SameMessage, InboxTypeOK
<1>2. InboxTypeOK'
    <2>1. acked' \subseteq IDs \X Encodings
        BY <1>1 DEF InboxTypeOK, Message
    <2> QED BY <1>1, <2>1 DEF InboxTypeOK, publisher, requests
<1>3. NetworkIsPublished' /\ LogIsFilled' /\ DeliveredInOrder'
      /\ NoGapOnRecord' /\ FirstOutcomeWins'
    BY <1>1 DEF NetworkIsPublished, LogIsFilled, DeliveredInOrder,
                NoGapOnRecord, FirstOutcomeWins, publisher, requests
<1>4. AcknowledgedIsRecorded'
    BY <1>1 DEF AcknowledgedIsRecorded
<1> QED BY <1>2, <1>3, <1>4

\* A new key records its first outcome; a known one is only read.
LEMMA RequestKeepsInbox ==
    ASSUME Inbox, NEW op \in Operations, NEW key \in Keys,
           NEW d \in RequestBytes, NEW o \in Outcomes,
           RecordRequest(op, key, d, o)
    PROVE  Inbox'
<1> USE InboxAssumption DEF Inbox
<1> DEFINE ok    == <<op, key>>
           prior == idempotency[ok]
           fresh == [digest |-> d, outcome |-> o]
<1>1. ok \in Operations \X Keys /\ prior \in Request \cup {None}
    BY DEF InboxTypeOK
<1>2. fresh \in Request /\ fresh # None
    BY DEF Request
<1>3. UNCHANGED <<publisher, network, inbox>>
    BY DEF RecordRequest
<1>4. NetworkIsPublished' /\ LogIsFilled' /\ DeliveredInOrder'
      /\ NoGapOnRecord' /\ AcknowledgedIsRecorded'
    BY <1>3 DEF NetworkIsPublished, LogIsFilled, DeliveredInOrder, NoGapOnRecord,
                AcknowledgedIsRecorded, publisher, inbox
<1>5. CASE prior = None
    <2>1. /\ idempotency' = [idempotency EXCEPT ![ok] = fresh]
          /\ answers' = answers \cup {<<op, key, d, o>>}
        BY <1>5 DEF RecordRequest, Entry
    <2>2. InboxTypeOK'
        <3>1. idempotency' \in [Operations \X Keys -> Request \cup {None}]
            BY <1>1, <1>2, <2>1 DEF InboxTypeOK
        <3>2. answers' \subseteq Operations \X Keys \X RequestBytes \X Outcomes
            BY <2>1 DEF InboxTypeOK
        <3> QED BY <1>3, <3>1, <3>2 DEF InboxTypeOK, publisher, inbox
    <2>3. FirstOutcomeWins'
        <3> SUFFICES ASSUME NEW x \in answers'
                     PROVE  /\ idempotency'[<<x[1], x[2]>>] # None
                            /\ idempotency'[<<x[1], x[2]>>] =
                                  [digest |-> x[3], outcome |-> x[4]]
            BY DEF FirstOutcomeWins
        <3>1. CASE x = <<op, key, d, o>>
            BY <1>1, <1>2, <2>1, <3>1 DEF InboxTypeOK
        <3>2. CASE x \in answers
            <4>1. /\ <<x[1], x[2]>> \in Operations \X Keys
                  /\ idempotency[<<x[1], x[2]>>] # None
                  /\ idempotency[<<x[1], x[2]>>] =
                        [digest |-> x[3], outcome |-> x[4]]
                BY <3>2 DEF FirstOutcomeWins, InboxTypeOK
            <4>2. <<x[1], x[2]>> # ok
                BY <1>5, <4>1
            <4>3. idempotency'[<<x[1], x[2]>>] = idempotency[<<x[1], x[2]>>]
                BY <2>1, <4>1, <4>2 DEF InboxTypeOK
            <4> QED BY <4>1, <4>3
        <3> QED BY <2>1, <3>1, <3>2
    <2> QED BY <1>4, <2>2, <2>3
<1>6. CASE prior # None
    <2>1. /\ prior.digest = d /\ idempotency' = idempotency
          /\ answers' = answers \cup {<<op, key, d, prior.outcome>>}
        BY <1>6 DEF RecordRequest, Replayed
    <2>2. prior \in Request
        BY <1>1, <1>6
    <2>3. InboxTypeOK'
        <3>1. answers' \subseteq Operations \X Keys \X RequestBytes \X Outcomes
            BY <2>1, <2>2 DEF InboxTypeOK, Request
        <3> QED BY <1>3, <2>1, <3>1 DEF InboxTypeOK, publisher, inbox
    <2>4. prior = [digest |-> d, outcome |-> prior.outcome]
        BY <2>1, <2>2 DEF Request
    <2>5. FirstOutcomeWins'
        <3> SUFFICES ASSUME NEW x \in answers'
                     PROVE  /\ idempotency[<<x[1], x[2]>>] # None
                            /\ idempotency[<<x[1], x[2]>>] =
                                  [digest |-> x[3], outcome |-> x[4]]
            BY <2>1 DEF FirstOutcomeWins
        <3>1. CASE x = <<op, key, d, prior.outcome>>
            BY <1>6, <2>4, <3>1
        <3>2. CASE x \in answers
            BY <3>2 DEF FirstOutcomeWins
        <3> QED BY <2>1, <3>1, <3>2
    <2> QED BY <1>4, <2>3, <2>5
<1> QED BY <1>5, <1>6

\* Every step keeps the invariant.
LEMMA NextKeepsInbox == Inbox /\ [InboxNext]_inboxVars => Inbox'
<1> SUFFICES ASSUME Inbox, [InboxNext]_inboxVars PROVE Inbox'
    OBVIOUS
<1>1. CASE UNCHANGED inboxVars
    BY <1>1 DEF Inbox, InboxTypeOK, NetworkIsPublished, LogIsFilled, DeliveredInOrder,
                NoGapOnRecord, AcknowledgedIsRecorded, FirstOutcomeWins,
                inboxVars, publisher, inbox, requests
<1>2. CASE InboxNext
    BY <1>2, OutsideKeepsInbox, DeliverKeepsInbox, DuplicateKeepsInbox,
       RequestKeepsInbox DEF InboxNext
<1> QED BY <1>1, <1>2

\* The invariant holds in every reachable state.
LEMMA InboxAlways == InboxSpec => []Inbox
BY InitInbox, NextKeepsInbox, PTL DEF InboxSpec

\* Events are on record without a gap, each under its own number, however their
\* copies were lost, repeated and reordered (worker.go:289-302).
THEOREM RecordHasNoGap == InboxSpec => [](InboxTypeOK /\ NoGapOnRecord)
<1>1. Inbox => InboxTypeOK /\ NoGapOnRecord
    BY DEF Inbox
<1> QED BY <1>1, InboxAlways, PTL

\* Whatever versions of an event were sent, the acknowledged one is the one that
\* took effect (worker.go:289-303).
THEOREM AcknowledgedForGood == InboxSpec => []AcknowledgedIsRecorded
<1>1. Inbox => AcknowledgedIsRecorded
    BY DEF Inbox
<1> QED BY <1>1, InboxAlways, PTL

\* All callers of one key are told the outcome recorded first
\* (worker.go:273-283), for any number of callers.
THEOREM OneOutcome == InboxSpec => []FirstOutcomeWins
<1>1. Inbox => FirstOutcomeWins
    BY DEF Inbox
<1> QED BY <1>1, InboxAlways, PTL

\* The safety half of IsOrderedDelivery: every step of the publisher, the
\* network and the worker announces an event, lets the next one take effect, or
\* is invisible to a subscriber (worker.go:286-304).
THEOREM DeliveredInSequence ==
    InboxSpec => Ordered!ODInit /\ [][Ordered!ODNext]_<<published, delivered>>
<1>1. InboxInit => Ordered!ODInit
    BY DEF InboxInit, Ordered!ODInit
<1>2. Inbox /\ [InboxNext]_inboxVars => [Ordered!ODNext]_<<published, delivered>>
    <2> SUFFICES ASSUME Inbox, [InboxNext]_inboxVars
                 PROVE  Ordered!ODNext \/ UNCHANGED <<published, delivered>>
        OBVIOUS
    <2>1. ASSUME NEW b \in Encodings, Publish(b)
          PROVE  Ordered!ODNext
        BY <2>1 DEF Publish, inbox, Ordered!ODNext, Ordered!Announce
    <2>2. ASSUME NEW m \in network, DeliverEvent(m)
          PROVE  Ordered!ODNext
        <3>1. /\ m.id = lastSequence + 1 /\ Len(delivered) = lastSequence
              /\ lastSequence < published
            BY <2>2, DeliveryAppends
        <3>2. delivered' = Append(delivered, m.id) /\ published' = published
            BY <2>2 DEF DeliverEvent, publisher
        <3> QED BY <3>1, <3>2 DEF Ordered!ODNext, Ordered!TakeEffect
    <2>3. CASE UNCHANGED inboxVars
        BY <2>3 DEF inboxVars, publisher, inbox
    <2>4. ASSUME \/ \E i \in IDs, t \in BOOLEAN : Send(i, t)
                 \/ \E i \in IDs, b \in Encodings : Rebuild(i, b)
                 \/ \E m \in network : Lose(m)
                 \/ \E m \in network : DeliverDuplicate(m)
                 \/ \E op \in Operations, key \in Keys, d \in RequestBytes,
                       o \in Outcomes : RecordRequest(op, key, d, o)
          PROVE  UNCHANGED <<published, delivered>>
        BY <2>4 DEF Send, Rebuild, Lose, DeliverDuplicate, RecordRequest,
                    publisher, inbox
    <2> QED BY <2>1, <2>2, <2>3, <2>4 DEF InboxNext
<1> QED BY <1>1, <1>2, InboxAlways, PTL DEF InboxSpec

------------------------------------------------------------------------------
(* WorkerUsage *)

\* An observation is recorded under the key that is computed from it.
RecordedUnderItsKey ==
    \A k \in UsageKeys : usage[k] # Missing => Key(usage[k]) = k

\* m is the largest amount on record for an attempt, zero when there is none.
IsLargest(a, m) ==
    /\ m \in 0 .. MaxInt
    /\ m = 0 \/ \E k \in UsageOf(a) : usage[k].units = m
    /\ \A k \in UsageOf(a) : usage[k].units <= m

\* The account of one attempt: an attempt never heard of counts for nothing, and
\* the high-water mark, whichever way it was raised, is covered by the largest
\* amount on record and so by the sum.
AccountOf(a) ==
    /\ IsFiniteSet(UsageOf(a))
    /\ a \notin Reporting => UsageOf(a) = {} /\ highWater[a] = 0
    /\ highWater[a] <= SumOf(a)
    /\ IsLargest(a, Largest(a))
    /\ highWater[a] <= Largest(a)
    /\ a \notin cumulative => highWater[a] = Largest(a)

\* The inductive invariant: the total moves by what one attempt's account moves.
Accounts ==
    /\ UsageTypeOK
    /\ RecordedUnderItsKey
    /\ IsFiniteSet(Reporting)
    /\ \A a \in Attempts : AccountOf(a)
    /\ usageTotal >= SumOver(Least, Reporting)
    /\ usageTotal <= SumOver(Most, Reporting)

\* The fields of an observation that may be sent.
LEMMA ObservationFields ==
    ASSUME NEW u \in Usages
    PROVE  /\ u \in Usage /\ u # Missing
           /\ u.attempt \in Attempts
           /\ u.units \in 0 .. MaxInt /\ u.units \in Nat
           /\ Key(u) \in UsageKeys
           /\ MaxInt \in Nat
<1>1. /\ u \in Usage /\ u # Missing /\ MaxInt \in Nat
      /\ u.attempt \in Attempts /\ u.units \in 0 .. MaxInt
      /\ u.provider \in Providers \cup {Missing} /\ u.observation \in Observations
  BY UsagesAssumption DEF Usage
<1>2. Key(u) \in UsageKeys
  BY <1>1 DEF Key, UsageKeys
<1> QED
  BY <1>1, <1>2

\* The recorded observations have the fields of one.
LEMMA RecordedFields ==
    ASSUME UsageTypeOK, NEW a, NEW k \in UsageOf(a)
    PROVE  /\ k \in UsageKeys /\ usage[k] # Missing
           /\ usage[k].attempt = a
           /\ usage[k].units \in 0 .. MaxInt /\ usage[k].units \in Nat
BY UsagesAssumption DEF UsageOf, UsageTypeOK, Usage

\* There is one largest amount at most.
LEMMA LargestIsUnique ==
    UsageTypeOK => \A a, m : IsLargest(a, m) => Largest(a) = m
<1> SUFFICES ASSUME UsageTypeOK, NEW a, NEW m, IsLargest(a, m)
             PROVE  Largest(a) = m
  OBVIOUS
<1> DEFINE T == {0} \cup {usage[k].units : k \in UsageOf(a)}
<1>1. \A x \in T : x \in Nat
  BY RecordedFields
<1>2. m \in T /\ \A x \in T : m >= x
  BY <1>1, UsagesAssumption DEF IsLargest
<1>3. \A x \in T : (\A y \in T : x >= y) => x = m
  BY <1>1, <1>2
<1>4. Max(T) = m
  <2> HIDE DEF T
  <2> QED
    BY <1>2, <1>3 DEF Max
<1> QED
  BY <1>4 DEF Largest

\* The same in the next state.
LEMMA LargestIsUniqueNext ==
    (UsageTypeOK => \A a, m : IsLargest(a, m) => Largest(a) = m)'
BY LargestIsUnique, PTL

\* What an attempt's amounts add up to is a natural number.
LEMMA SumOfIsNat ==
    ASSUME UsageTypeOK, NEW a, IsFiniteSet(UsageOf(a))
    PROVE  SumOf(a) \in Nat
<1> DEFINE f == [k \in UsageOf(a) |-> usage[k].units]
<1>1. \A k \in UsageOf(a) : f[k] \in Nat
  BY RecordedFields
<1> HIDE DEF f
<1>2. SumOver(f, UsageOf(a)) \in Nat
  BY <1>1, SumIsNat
<1> QED
  BY <1>2 DEF SumOf, f

\* A new observation of an attempt adds its amount to the attempt's sum; the
\* record of every other attempt is as it was.
LEMMA RecordAddsToSum ==
    ASSUME UsageTypeOK, NEW u \in Usages, New(u),
           usage' = [usage EXCEPT ![Key(u)] = u],
           NEW a \in Attempts, IsFiniteSet(UsageOf(a))
    PROVE  /\ IsFiniteSet(UsageOf(a)')
           /\ \A k \in UsageOf(a) : usage'[k] = usage[k]
           /\ usage'[Key(u)] = u
           /\ SumOf(a) \in Nat /\ SumOf(a)' \in Nat
           /\ a # u.attempt => /\ UsageOf(a)' = UsageOf(a)
                               /\ SumOf(a)' = SumOf(a)
           /\ a = u.attempt => /\ UsageOf(a)' = UsageOf(a) \cup {Key(u)}
                               /\ SumOf(a)' = SumOf(a) + u.units
<1> DEFINE S == UsageOf(a)
           key == Key(u)
           f == [k \in S |-> usage[k].units]
           g == [k \in S' |-> usage'[k].units]
<1>1. /\ key \in UsageKeys /\ u # Missing /\ u.units \in Nat
      /\ usage' = [usage EXCEPT ![key] = u]
      /\ usage[key] = Missing
  BY ObservationFields DEF New
<1> HIDE DEF key
<1>2. /\ usage'[key] = u
      /\ \A k \in UsageKeys : k # key => usage'[k] = usage[k]
  BY <1>1 DEF UsageTypeOK
<1>3. \A k \in S : k \in UsageKeys /\ k # key /\ usage'[k] = usage[k]
  BY <1>1, <1>2 DEF UsageOf
<1>4. a # u.attempt => S' = S
  BY <1>1, <1>2 DEF UsageOf
<1>5. a = u.attempt => S' = S \cup {key}
  BY <1>1, <1>2 DEF UsageOf
<1>6. IsFiniteSet(S')
  <2>1. IsFiniteSet(S \cup {key})
    BY FS_AddElement
  <2> QED
    BY <1>4, <1>5, <2>1
<1>7. \A k \in S : f[k] \in Nat /\ (k \in S' => f[k] = g[k])
  BY <1>3, RecordedFields
<1>8. SumOf(a) = SumOver(f, S) /\ SumOf(a)' = SumOver(g, S')
  BY DEF SumOf
<1>9. SumOf(a) \in Nat
  BY SumOfIsNat
<1>10. ASSUME a # u.attempt
       PROVE  SumOf(a)' = SumOf(a)
  <2> HIDE DEF f, g
  <2>1. SumOver(f, S) = SumOver(g, S)
    BY <1>4, <1>7, <1>10, SumOfEqualValues
  <2> QED
    BY <1>4, <1>8, <1>10, <2>1
<1>11. ASSUME a = u.attempt
       PROVE  SumOf(a)' = SumOf(a) + u.units
  <2>1. /\ key \notin S /\ g[key] = u.units
        /\ \A k \in S \cup {key} : g[k] \in Nat
    BY <1>1, <1>2, <1>3, <1>5, <1>7, <1>11
  <2> HIDE DEF f, g
  <2>2. SumOver(g, S \cup {key}) = SumOver(g, S) + u.units
    BY <2>1, SumTakesIn
  <2>3. SumOver(f, S) = SumOver(g, S)
    BY <1>5, <1>7, <1>11, SumOfEqualValues
  <2> QED
    BY <1>5, <1>8, <1>11, <2>2, <2>3
<1> QED
  BY <1>1, <1>2, <1>3, <1>4, <1>5, <1>6, <1>9, <1>10, <1>11 DEF key

\* A new observation of an attempt is its largest or leaves the largest as it is.
LEMMA RecordRaisesLargest ==
    ASSUME UsageTypeOK, UsageTypeOK', NEW u \in Usages, New(u),
           usage' = [usage EXCEPT ![Key(u)] = u],
           NEW a \in Attempts, IsFiniteSet(UsageOf(a)), IsLargest(a, Largest(a))
    PROVE  /\ IsLargest(a, Largest(a))'
           /\ a # u.attempt => Largest(a)' = Largest(a)
           /\ a = u.attempt => Largest(a)' = IF u.units >= Largest(a)
                                             THEN u.units ELSE Largest(a)
<1> DEFINE S == UsageOf(a)
           m == IF a = u.attempt /\ u.units >= Largest(a)
                THEN u.units ELSE Largest(a)
<1>1. /\ \A k \in S : usage'[k] = usage[k] /\ usage[k].units \in Nat
      /\ usage'[Key(u)] = u
      /\ a # u.attempt => S' = S
      /\ a = u.attempt => S' = S \cup {Key(u)}
  BY RecordAddsToSum, RecordedFields
<1>2. /\ Largest(a) \in 0 .. MaxInt
      /\ Largest(a) = 0 \/ \E k \in S : usage[k].units = Largest(a)
      /\ \A k \in S : usage[k].units <= Largest(a)
  BY DEF IsLargest
<1>3. u.units \in 0 .. MaxInt /\ MaxInt \in Nat
  BY ObservationFields
<1>4. \A n : IsLargest(a, n)' <=>
          /\ n \in 0 .. MaxInt
          /\ n = 0 \/ \E k \in S' : usage'[k].units = n
          /\ \A k \in S' : usage'[k].units <= n
  BY DEF IsLargest
<1>5. PICK n : n = m
  OBVIOUS
<1>6. /\ n \in 0 .. MaxInt
      /\ n = 0 \/ \E k \in S' : usage'[k].units = n
      /\ \A k \in S' : usage'[k].units <= n
  <2>1. CASE a = u.attempt
    <3>1. \A k \in S' : k \in S \/ k = Key(u)
      BY <1>1, <2>1
    <3>2. Key(u) \in S' /\ S \subseteq S'
      BY <1>1, <2>1
    <3> QED
      BY <1>1, <1>2, <1>3, <1>5, <2>1, <3>1, <3>2
  <2>2. CASE a # u.attempt
    BY <1>1, <1>2, <1>5, <2>2
  <2> QED
    BY <2>1, <2>2
<1>7. IsLargest(a, n)'
  BY <1>4, <1>6
<1>8. Largest(a)' = n
  BY <1>7, LargestIsUniqueNext
<1>9. IsLargest(a, Largest(a))'
  BY <1>7, <1>8
<1> QED
  BY <1>5, <1>8, <1>9

\* A step that records u and leaves the marks of the other attempts alone.
Records(u) ==
    /\ New(u)
    /\ usage' = [usage EXCEPT ![Key(u)] = u]
    /\ additive' = additive \/ additive' = additive \cup {u.attempt}
    /\ cumulative' = cumulative \/ cumulative' = cumulative \cup {u.attempt}
    /\ u.attempt \in Reporting'
    /\ \A a \in Attempts : a # u.attempt => highWater'[a] = highWater[a]

\* The accounts of the other attempts stay as they are.
LEMMA OtherAccountsKept ==
    ASSUME Accounts, UsageTypeOK', NEW u \in Usages, Records(u),
           NEW a \in Attempts, a # u.attempt
    PROVE  AccountOf(a)'
<1>1. AccountOf(a) /\ UsageTypeOK
  BY DEF Accounts
<1>2. /\ IsFiniteSet(UsageOf(a)') /\ UsageOf(a)' = UsageOf(a)
      /\ SumOf(a)' = SumOf(a)
  BY <1>1, RecordAddsToSum DEF Records, AccountOf
<1>3. IsLargest(a, Largest(a))' /\ Largest(a)' = Largest(a)
  BY <1>1, RecordRaisesLargest DEF Records, AccountOf
<1>4. /\ highWater'[a] = highWater[a]
      /\ a \in Reporting' <=> a \in Reporting
      /\ a \in cumulative' <=> a \in cumulative
  BY DEF Records, Reporting
<1> QED
  BY <1>1, <1>2, <1>3, <1>4 DEF AccountOf

\* The account of the attempt that reports: its mark may rise to the amount, and
\* must be the largest one as long as no running total was observed.
LEMMA OwnAccountKept ==
    ASSUME Accounts, UsageTypeOK', NEW u \in Usages, Records(u),
           NEW a, a = u.attempt,
           \/ highWater'[a] = highWater[a]
           \/ highWater'[a] = u.units,
           a \notin cumulative' => highWater'[a] = IF u.units >= highWater[a]
                                                   THEN u.units ELSE highWater[a]
    PROVE  AccountOf(a)'
<1>1. AccountOf(a) /\ UsageTypeOK /\ a \in Attempts
  BY ObservationFields DEF Accounts
<1>2. /\ IsFiniteSet(UsageOf(a)')
      /\ SumOf(a)' = SumOf(a) + u.units /\ SumOf(a) \in Nat
  BY <1>1, RecordAddsToSum DEF Records, AccountOf
<1>3. /\ IsLargest(a, Largest(a))'
      /\ Largest(a)' = IF u.units >= Largest(a) THEN u.units ELSE Largest(a)
  BY <1>1, RecordRaisesLargest DEF Records, AccountOf
<1>4. /\ highWater[a] \in Nat /\ u.units \in Nat /\ Largest(a) \in Nat
      /\ highWater[a] <= SumOf(a) /\ highWater[a] <= Largest(a)
      /\ a \notin cumulative => highWater[a] = Largest(a)
  BY <1>1, ObservationFields DEF AccountOf, UsageTypeOK, IsLargest
<1>5. a \in Reporting' /\ (a \notin cumulative' => a \notin cumulative)
  BY DEF Records
<1>6. /\ highWater'[a] <= SumOf(a)'
      /\ highWater'[a] <= Largest(a)'
      /\ a \notin cumulative' => highWater'[a] = Largest(a)'
  BY <1>2, <1>3, <1>4, <1>5
<1> QED
  BY <1>2, <1>3, <1>5, <1>6 DEF AccountOf

\* Either bound on the total moves by what it counts for the attempt.
LEMMA TotalsMove ==
    ASSUME Accounts, UsageTypeOK', NEW u \in Usages, Records(u)
    PROVE  /\ SumOver(Least, Reporting)' =
                  SumOver(Least, Reporting) - Least[u.attempt] + Least'[u.attempt]
           /\ SumOver(Most, Reporting)' =
                  SumOver(Most, Reporting) - Most[u.attempt] + Most'[u.attempt]
           /\ SumOver(Least, Reporting) \in Nat
           /\ SumOver(Most, Reporting) \in Nat
           /\ IsFiniteSet(Reporting')
<1>1. UsageTypeOK /\ IsFiniteSet(Reporting) /\ u.attempt \in Attempts
  BY ObservationFields DEF Accounts
<1>2. /\ Reporting \subseteq Attempts
      /\ Reporting' = Reporting \cup {u.attempt}
  BY <1>1 DEF Reporting, UsageTypeOK, Records
<1>3. ASSUME NEW a \in Attempts
      PROVE  /\ Least[a] \in Nat /\ Least'[a] \in Nat
             /\ Most[a] \in Nat /\ Most'[a] \in Nat
             /\ a # u.attempt => Least[a] = Least'[a] /\ Most[a] = Most'[a]
             /\ a \notin Reporting => Least[a] = 0 /\ Most[a] = 0
  <2>1. AccountOf(a)
    BY DEF Accounts
  <2>2. /\ SumOf(a) \in Nat /\ SumOf(a)' \in Nat
        /\ a # u.attempt => SumOf(a)' = SumOf(a)
    BY <1>1, <2>1, RecordAddsToSum DEF AccountOf, Records
  <2>3. highWater[a] \in Nat /\ highWater'[a] \in Nat
    BY <1>1, UsagesAssumption DEF UsageTypeOK
  <2>4. a # u.attempt => /\ highWater'[a] = highWater[a]
                         /\ a \in cumulative' <=> a \in cumulative
                         /\ a \in additive' <=> a \in additive
    BY DEF Records
  <2>5. a \notin Reporting => /\ highWater[a] = 0 /\ UsageOf(a) = {}
                              /\ SumOf(a) = 0
    BY <2>1, SumOfNone DEF AccountOf, SumOf
  <2>6. /\ Least[a] = IF a \in cumulative THEN highWater[a] ELSE SumOf(a)
        /\ Most[a] = IF a \in additive THEN SumOf(a) ELSE highWater[a]
        /\ Least'[a] = IF a \in cumulative' THEN highWater'[a] ELSE SumOf(a)'
        /\ Most'[a] = IF a \in additive' THEN SumOf(a)' ELSE highWater'[a]
    BY DEF Least, Most
  <2>7. /\ Least[a] \in Nat /\ Least'[a] \in Nat
        /\ Most[a] \in Nat /\ Most'[a] \in Nat
    BY <2>2, <2>3, <2>6
  <2>8. a # u.attempt => Least[a] = Least'[a] /\ Most[a] = Most'[a]
    BY <2>2, <2>4, <2>6
  <2>9. a \notin Reporting => Least[a] = 0 /\ Most[a] = 0
    BY <2>5, <2>6
  <2> QED
    BY <2>7, <2>8, <2>9
<1>4. /\ SumOver(Least, Reporting) \in Nat
      /\ IsFiniteSet(Reporting \cup {u.attempt})
      /\ SumOver(Least', Reporting \cup {u.attempt}) =
             SumOver(Least, Reporting) - Least[u.attempt] + Least'[u.attempt]
  <2>1. PICK f, g, R, e : /\ f = Least /\ g = Least'
                         /\ R = Reporting /\ e = u.attempt
    OBVIOUS
  <2>2. IsFiniteSet(R)
    BY <1>1, <2>1
  <2>3. /\ \A x \in R : f[x] \in Nat /\ g[x] \in Nat
        /\ f[e] \in Nat /\ g[e] \in Nat
    BY <1>1, <1>2, <1>3, <2>1
  <2>4. \A x \in R : x # e => f[x] = g[x]
    BY <1>1, <1>2, <1>3, <2>1
  <2>5. e \in R \/ f[e] = 0
    BY <1>1, <1>2, <1>3, <2>1
  <2>6. SumOver(g, R \cup {e}) = SumOver(f, R) - f[e] + g[e]
    BY <2>2, <2>3, <2>4, <2>5, SumMovesAtOne
  <2>7. SumOver(f, R) \in Nat /\ IsFiniteSet(R \cup {e})
    BY <2>2, <2>3, SumIsNat, FS_AddElement
  <2> QED
    BY <2>1, <2>6, <2>7
<1>5. /\ SumOver(Most, Reporting) \in Nat
      /\ SumOver(Most', Reporting \cup {u.attempt}) =
             SumOver(Most, Reporting) - Most[u.attempt] + Most'[u.attempt]
  <2>1. PICK f, g, R, e : /\ f = Most /\ g = Most'
                         /\ R = Reporting /\ e = u.attempt
    OBVIOUS
  <2>2. IsFiniteSet(R)
    BY <1>1, <2>1
  <2>3. /\ \A x \in R : f[x] \in Nat /\ g[x] \in Nat
        /\ f[e] \in Nat /\ g[e] \in Nat
    BY <1>1, <1>2, <1>3, <2>1
  <2>4. \A x \in R : x # e => f[x] = g[x]
    BY <1>1, <1>2, <1>3, <2>1
  <2>5. e \in R \/ f[e] = 0
    BY <1>1, <1>2, <1>3, <2>1
  <2>6. SumOver(g, R \cup {e}) = SumOver(f, R) - f[e] + g[e]
    BY <2>2, <2>3, <2>4, <2>5, SumMovesAtOne
  <2>7. SumOver(f, R) \in Nat /\ IsFiniteSet(R \cup {e})
    BY <2>2, <2>3, SumIsNat, FS_AddElement
  <2> QED
    BY <2>1, <2>6, <2>7
<1> QED
  BY <1>2, <1>4, <1>5

\* The record stays keyed by what it records.
LEMMA RecordKeepsKeys ==
    ASSUME UsageTypeOK, RecordedUnderItsKey, NEW u \in Usages,
           usage' = [usage EXCEPT ![Key(u)] = u]
    PROVE  RecordedUnderItsKey'
BY ObservationFields DEF RecordedUnderItsKey, UsageTypeOK

\* The larger of an amount and the mark is what a single amount raises it to.
LEMMA RaisedToIsLarger ==
    ASSUME UsageTypeOK, NEW u \in Usages
    PROVE  /\ RaisedTo(u) = IF u.units >= highWater[u.attempt]
                            THEN u.units ELSE highWater[u.attempt]
           /\ highWater[u.attempt] \in 0 .. MaxInt
           /\ highWater[u.attempt] \in Nat
           /\ RaisedTo(u) \in 0 .. MaxInt
<1>1. /\ u.units \in Nat /\ u.units \in 0 .. MaxInt
      /\ highWater[u.attempt] \in 0 .. MaxInt /\ MaxInt \in Nat
  BY ObservationFields DEF UsageTypeOK
<1> DEFINE h == highWater[u.attempt]
           m == IF u.units >= h THEN u.units ELSE h
<1>2. /\ m \in {u.units, h} /\ (\A y \in {u.units, h} : m >= y)
      /\ \A x \in {u.units, h} : (\A y \in {u.units, h} : x >= y) => x = m
  BY <1>1
<1>3. Max({u.units, h}) = m
  <2> HIDE DEF m
  <2> QED
    BY <1>2 DEF Max
<1> QED
  BY <1>1, <1>3 DEF RaisedTo

\* A single amount adds itself.
LEMMA ObserveKeepsAccounts ==
    ASSUME Accounts, NEW u \in Usages, ObserveUsage(u)
    PROVE  Accounts'
<1> DEFINE a == u.attempt
<1>1. /\ UsageTypeOK /\ RecordedUnderItsKey
      /\ u \in Usage /\ a \in Attempts /\ u.units \in Nat /\ MaxInt \in Nat
      /\ Key(u) \in UsageKeys
      /\ usageTotal \in Nat /\ usageTotal <= MaxInt
      /\ AccountOf(a)
  BY ObservationFields DEF Accounts, UsageTypeOK
<1>2. /\ usageTotal' = usageTotal + u.units /\ usageTotal' <= MaxInt
      /\ usage' = [usage EXCEPT ![Key(u)] = u]
      /\ highWater' = [highWater EXCEPT ![a] = RaisedTo(u)]
      /\ additive' = additive \cup {a} /\ cumulative' = cumulative
      /\ New(u)
  BY <1>1 DEF ObserveUsage, Overflows
<1>3. /\ RaisedTo(u) = IF u.units >= highWater[a] THEN u.units ELSE highWater[a]
      /\ RaisedTo(u) \in 0 .. MaxInt
      /\ highWater[a] \in Nat
  BY <1>1, RaisedToIsLarger
<1>4. UsageTypeOK'
  BY <1>1, <1>2, <1>3 DEF UsageTypeOK
<1>5. /\ highWater'[a] = RaisedTo(u)
      /\ \A x \in Attempts : x # a => highWater'[x] = highWater[x]
  BY <1>1, <1>2 DEF UsageTypeOK
<1>6. Records(u)
  BY <1>2, <1>5 DEF Records, Reporting
<1>7. \A x \in Attempts : AccountOf(x)'
  <2>1. AccountOf(a)'
    BY <1>3, <1>4, <1>5, <1>6, OwnAccountKept
  <2> QED
    BY <1>4, <1>6, <2>1, OtherAccountsKept
<1>8. /\ SumOf(a)' = SumOf(a) + u.units /\ SumOf(a) \in Nat
      /\ highWater[a] <= SumOf(a)
  BY <1>1, <1>2, RecordAddsToSum DEF AccountOf
<1>9. /\ Least[a] = IF a \in cumulative THEN highWater[a] ELSE SumOf(a)
      /\ Most[a] = IF a \in additive THEN SumOf(a) ELSE highWater[a]
      /\ Least'[a] = IF a \in cumulative THEN RaisedTo(u) ELSE SumOf(a)'
      /\ Most'[a] = SumOf(a)'
  BY <1>1, <1>2, <1>5 DEF Least, Most
<1>10. Least'[a] \in Nat /\ Least'[a] <= Least[a] + u.units
  BY <1>1, <1>3, <1>8, <1>9
<1>11. Most'[a] \in Nat /\ Most'[a] >= Most[a] + u.units
  BY <1>1, <1>3, <1>8, <1>9
<1>12. Least[a] \in Nat /\ Most[a] \in Nat
  BY <1>3, <1>8, <1>9
<1>13. /\ SumOver(Least, Reporting)' =
              SumOver(Least, Reporting) - Least[a] + Least'[a]
       /\ SumOver(Most, Reporting)' =
              SumOver(Most, Reporting) - Most[a] + Most'[a]
       /\ SumOver(Least, Reporting) \in Nat /\ SumOver(Most, Reporting) \in Nat
       /\ IsFiniteSet(Reporting')
  BY <1>4, <1>6, TotalsMove
<1>14. /\ usageTotal >= SumOver(Least, Reporting)
       /\ usageTotal <= SumOver(Most, Reporting)
  BY DEF Accounts
<1>15. usageTotal' >= SumOver(Least, Reporting)'
  BY <1>1, <1>2, <1>10, <1>12, <1>13, <1>14
<1>16. usageTotal' <= SumOver(Most, Reporting)'
  BY <1>1, <1>2, <1>11, <1>12, <1>13, <1>14
<1>17. RecordedUnderItsKey'
  BY <1>1, <1>2, RecordKeepsKeys
<1> QED
  BY <1>4, <1>7, <1>13, <1>15, <1>16, <1>17 DEF Accounts

\* A running total adds what is new in it, or nothing when that would overflow.
LEMMA CumulativeKeepsAccounts ==
    ASSUME Accounts, NEW u \in Usages, ObserveCumulativeUsage(u)
    PROVE  Accounts'
<1> DEFINE a == u.attempt
           added == IF Overflows(Delta(u)) THEN 0 ELSE Delta(u)
<1>1. /\ UsageTypeOK /\ RecordedUnderItsKey
      /\ u \in Usage /\ a \in Attempts /\ u.units \in Nat /\ MaxInt \in Nat
      /\ u.units \in 0 .. MaxInt /\ Key(u) \in UsageKeys
      /\ usageTotal \in Nat /\ usageTotal <= MaxInt
      /\ highWater[a] \in Nat
      /\ AccountOf(a)
  BY ObservationFields, RaisedToIsLarger DEF Accounts, UsageTypeOK
<1>2. /\ usage' = [usage EXCEPT ![Key(u)] = u]
      /\ additive' = additive /\ cumulative' = cumulative \cup {a}
      /\ New(u) /\ u.units >= highWater[a]
  BY <1>1 DEF ObserveCumulativeUsage, Delta
<1>3. /\ usageTotal' = usageTotal + added /\ usageTotal' <= MaxInt
      /\ added \in Nat
      /\ \/ added = 0 /\ highWater' = highWater
         \/ /\ added = u.units - highWater[a]
            /\ highWater' = [highWater EXCEPT ![a] = u.units]
  BY <1>1, <1>2 DEF ObserveCumulativeUsage, Overflows, Delta
<1> HIDE DEF added
<1>4. UsageTypeOK'
  BY <1>1, <1>2, <1>3 DEF UsageTypeOK
<1>5. /\ \A x \in Attempts : x # a => highWater'[x] = highWater[x]
      /\ \/ added = 0 /\ highWater'[a] = highWater[a]
         \/ added = u.units - highWater[a] /\ highWater'[a] = u.units
  BY <1>1, <1>3 DEF UsageTypeOK
<1>6. Records(u)
  BY <1>2, <1>5 DEF Records, Reporting
<1>7. \A x \in Attempts : AccountOf(x)'
  <2>1. AccountOf(a)'
    BY <1>2, <1>4, <1>5, <1>6, OwnAccountKept
  <2> QED
    BY <1>4, <1>6, <2>1, OtherAccountsKept
<1>8. /\ SumOf(a)' = SumOf(a) + u.units /\ SumOf(a) \in Nat
      /\ highWater[a] <= SumOf(a)
  BY <1>1, <1>2, RecordAddsToSum DEF AccountOf
<1>9. /\ Least[a] = IF a \in cumulative THEN highWater[a] ELSE SumOf(a)
      /\ Most[a] = IF a \in additive THEN SumOf(a) ELSE highWater[a]
      /\ Least'[a] = highWater'[a]
      /\ Most'[a] = IF a \in additive THEN SumOf(a)' ELSE highWater'[a]
  BY <1>1, <1>2 DEF Least, Most
<1>10. Least'[a] \in Nat /\ Least'[a] <= Least[a] + added
  BY <1>1, <1>5, <1>8, <1>9
<1>11. Most'[a] \in Nat /\ Most'[a] >= Most[a] + added
  BY <1>1, <1>5, <1>8, <1>9
<1>12. Least[a] \in Nat /\ Most[a] \in Nat
  BY <1>1, <1>8, <1>9
<1>13. /\ SumOver(Least, Reporting)' =
              SumOver(Least, Reporting) - Least[a] + Least'[a]
       /\ SumOver(Most, Reporting)' =
              SumOver(Most, Reporting) - Most[a] + Most'[a]
       /\ SumOver(Least, Reporting) \in Nat /\ SumOver(Most, Reporting) \in Nat
       /\ IsFiniteSet(Reporting')
  BY <1>4, <1>6, TotalsMove
<1>14. /\ usageTotal >= SumOver(Least, Reporting)
       /\ usageTotal <= SumOver(Most, Reporting)
  BY DEF Accounts
<1>15. usageTotal' >= SumOver(Least, Reporting)'
  BY <1>1, <1>3, <1>10, <1>12, <1>13, <1>14
<1>16. usageTotal' <= SumOver(Most, Reporting)'
  BY <1>1, <1>3, <1>11, <1>12, <1>13, <1>14
<1>17. RecordedUnderItsKey'
  BY <1>1, <1>2, RecordKeepsKeys
<1> QED
  BY <1>4, <1>7, <1>13, <1>15, <1>16, <1>17 DEF Accounts

\* An empty ledger is in order.
LEMMA AccountsInit == UsageInit => Accounts
<1> SUFFICES ASSUME UsageInit
             PROVE  Accounts
  OBVIOUS
<1>1. UsageTypeOK /\ RecordedUnderItsKey
  BY UsagesAssumption DEF UsageInit, UsageTypeOK, RecordedUnderItsKey
<1>2. Reporting = {} /\ usageTotal = 0
  BY DEF UsageInit, Reporting
<1>3. ASSUME NEW a \in Attempts
      PROVE  AccountOf(a)
  <2>1. UsageOf(a) = {} /\ highWater[a] = 0
    BY DEF UsageInit, UsageOf
  <2>2. SumOf(a) = 0
    BY <2>1, SumOfNone DEF SumOf
  <2>3. IsLargest(a, 0)
    BY <2>1, UsagesAssumption DEF IsLargest
  <2>4. Largest(a) = 0
    BY <1>1, <2>3, LargestIsUnique
  <2> QED
    BY <2>1, <2>2, <2>3, <2>4, FS_EmptySet DEF AccountOf
<1> QED
  BY <1>1, <1>2, <1>3, SumOfNone, FS_EmptySet DEF Accounts

\* Every step keeps the accounts.
LEMMA AccountsStep == Accounts /\ [UsageNext]_usageVars => Accounts'
<1>1. ASSUME Accounts, UNCHANGED usageVars
      PROVE  Accounts'
  <2>1. UsageTypeOK' /\ RecordedUnderItsKey'
    BY <1>1 DEF Accounts, UsageTypeOK, RecordedUnderItsKey, usageVars
  <2>2. Reporting' = Reporting
    BY <1>1 DEF Reporting, usageVars
  <2>3. Least' = Least /\ Most' = Most
    BY <1>1 DEF Least, Most, SumOf, UsageOf, usageVars
  <2>4. ASSUME NEW a \in Attempts
        PROVE  AccountOf(a)'
    <3>1. usage' = usage /\ highWater' = highWater /\ cumulative' = cumulative
      BY <1>1 DEF usageVars
    <3>2. UsageOf(a)' = UsageOf(a) /\ SumOf(a)' = SumOf(a)
      BY <3>1 DEF SumOf, UsageOf
    <3>3. Largest(a)' = Largest(a)
      BY <3>1 DEF Largest, UsageOf
    <3>4. IsLargest(a, Largest(a)) => IsLargest(a, Largest(a))'
      BY <3>1, <3>2, <3>3 DEF IsLargest
    <3>5. AccountOf(a)
      BY <1>1 DEF Accounts
    <3> QED
      BY <2>2, <3>1, <3>2, <3>3, <3>4, <3>5 DEF AccountOf
  <2> QED
    BY <1>1, <2>1, <2>2, <2>3, <2>4 DEF Accounts, usageVars
<1> QED
  BY <1>1, ObserveKeepsAccounts, CumulativeKeepsAccounts DEF UsageNext

\* The accounts are in order in every reachable state.
LEMMA AccountsAlways == UsageSpec => []Accounts
BY AccountsInit, AccountsStep, PTL DEF UsageSpec

\* No amount, no mark and no total leaves the int64 range (worker.go:174-213).
THEOREM UsageFits == UsageSpec => []UsageTypeOK
<1>1. Accounts => UsageTypeOK
  BY DEF Accounts
<1> QED
  BY <1>1, AccountsAlways, PTL

\* For any attempts, observations and amounts, in any order and repetition, the
\* total lies between what the largest running totals and what the single
\* amounts of the attempts add up to (worker.go:174-213).
THEOREM TotalIsBetween == UsageSpec => []TotalIsExact
<1>1. Accounts => TotalIsExact
  BY DEF Accounts, AccountOf, TotalIsExact, HighWaterIsLargest
<1> QED
  BY <1>1, AccountsAlways, PTL

\* No two records carry one provider request's id, whichever attempts and
\* observations report it (worker.go:166-171).
THEOREM BilledOnce == UsageSpec => []ProviderRequestBilledOnce
<1>1. Accounts => ProviderRequestBilledOnce
  <2> SUFFICES ASSUME Accounts, NEW k \in UsageKeys, NEW l \in UsageKeys,
                      usage[k] # Missing, usage[l] # Missing,
                      usage[k].provider # Missing,
                      usage[k].provider = usage[l].provider
               PROVE  k = l
    BY DEF ProviderRequestBilledOnce
  <2>1. Key(usage[k]) = k /\ Key(usage[l]) = l
    BY DEF Accounts, RecordedUnderItsKey
  <2> QED
    BY <2>1 DEF Key
<1> QED
  BY <1>1, AccountsAlways, PTL
=============================================================================
