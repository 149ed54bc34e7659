------------------------------ MODULE WorkerInbox ------------------------------
(***************************************************************************)
(* What reaches a worker from outside, of mocks/fakeworker/worker.go:      *)
(* DeliverEvent, fed by a network that loses, repeats and reorders, and    *)
(* RecordRequest, called by any number of racing callers.  A call is one   *)
(* step under the mutex and a call that is refused is a stutter; the       *)
(* network may hand the same message over any number of times.             *)
(*                                                                         *)
(* The publisher is not part of the repository: it is modelled from what   *)
(* DeliverEvent expects of it.  It numbers its events, sends an event      *)
(* again until it is accepted, may send it without a trace context, and    *)
(* may be restarted and build other bytes for an event it sent before.     *)
(***************************************************************************)
EXTENDS Naturals, Sequences, FiniteSets

CONSTANTS MaxEvents,   \* bound: how many events are published
          Encodings,   \* the byte strings the publisher builds for an event
          Operations, Keys, RequestBytes, Outcomes,
          None         \* a missing map entry

IDs == 1 .. MaxEvents  \* the publisher's ids are as unique as its numbers

Message == [id: IDs, sequence: IDs, bytes: Encodings, trace: BOOLEAN]
Request == [digest: RequestBytes, outcome: Outcomes]

ASSUME InboxAssumption == /\ MaxEvents \in Nat
                          /\ Encodings # {}
                          /\ None \notin Message \cup Request \cup Encodings

VARIABLES
    published,    \* the publisher: how many events it has published
    log,          \* the publisher: the bytes of each event
    network,      \* the messages that may still arrive, any number of times
    events,       \* events[id]: the message accepted under that id
    lastSequence,
    acked,        \* <<id, bytes>> of the messages answered without an error
    idempotency,  \* idempotency[op, key]: the digest and outcome recorded
    \* History, read by no step of the code:
    delivered,    \* the ids of the events that took effect, in order
    answers       \* <<op, key, digest, outcome>> as returned to the callers

publisher == <<published, log>>
inbox     == <<events, lastSequence, acked, delivered>>
requests  == <<idempotency, answers>>
inboxVars == <<publisher, network, inbox, requests>>

InboxInit ==
    /\ published = 0
    /\ log = [i \in IDs |-> None]
    /\ network = {}
    /\ events = [i \in IDs |-> None]
    /\ lastSequence = 0
    /\ acked = {}
    /\ idempotency = [ok \in Operations \X Keys |-> None]
    /\ delivered = <<>>
    /\ answers = {}

------------------------------------------------------------------------------
\* The publisher and the network.
Publish(b) ==
    /\ published < MaxEvents
    /\ published' = published + 1
    /\ log' = [log EXCEPT ![published + 1] = b]
    /\ UNCHANGED <<network, inbox, requests>>

Packet(i, t) == [id |-> i, sequence |-> i, bytes |-> log[i], trace |-> t]

Send(i, t) ==
    /\ i <= published
    /\ network' = network \cup {Packet(i, t)}
    /\ UNCHANGED <<publisher, inbox, requests>>

\* A restarted publisher builds the event again; both versions may arrive.
Rebuild(i, b) ==
    /\ i <= published
    /\ log' = [log EXCEPT ![i] = b]
    /\ UNCHANGED <<published, network, inbox, requests>>

Lose(m) ==
    /\ m \in network
    /\ network' = network \ {m}
    /\ UNCHANGED <<publisher, inbox, requests>>

------------------------------------------------------------------------------
Unseen(m) == events[m.id] = None

BugSameNumber(m) == events[m.id].sequence = m.sequence

\* The duplicate of a message on record; other bytes or another number under
\* its id is an idempotency conflict, an error.
SameMessage(m) == /\ events[m.id].bytes = m.bytes
                  /\ events[m.id].sequence = m.sequence

BugNotBehind(m) == m.sequence > lastSequence

\* Anything but the next number is a gap, the numbers already taken included.
InSequence(m) == m.sequence = lastSequence + 1

BugTraceOptional(m) == TRUE

\* An event without its trace context is refused, and so holds up all later ones.
Traced(m) == m.trace

DeliverEvent(m) ==
    /\ m \in network
    /\ Unseen(m)
    /\ InSequence(m)
    /\ Traced(m)
    /\ events' = [events EXCEPT ![m.id] = m]
    /\ lastSequence' = m.sequence
    /\ acked' = acked \cup {<<m.id, m.bytes>>}
    /\ delivered' = Append(delivered, m.id)
    /\ UNCHANGED <<publisher, network, requests>>

DeliverDuplicate(m) ==
    /\ m \in network
    /\ ~Unseen(m)
    /\ SameMessage(m)
    /\ acked' = acked \cup {<<m.id, m.bytes>>}
    /\ UNCHANGED <<publisher, network, events, lastSequence, delivered, requests>>

Entry(digest, outcome) == [digest |-> digest, outcome |-> outcome]

BugLatestOutcome(prior, outcome) == outcome

\* What a repeated request is answered.
Replayed(prior, outcome) == prior.outcome

\* A new operation and key, or the same request again: whatever outcome the
\* caller proposes, it is told the one recorded first.  (Other bytes under the
\* same key are a conflict.)
RecordRequest(op, key, digest, outcome) ==
    LET prior == idempotency[<<op, key>>] IN
    /\ \/ /\ prior = None
          /\ idempotency' =
                 [idempotency EXCEPT ![<<op, key>>] = Entry(digest, outcome)]
          /\ answers' = answers \cup {<<op, key, digest, outcome>>}
       \/ /\ prior # None
          /\ prior.digest = digest
          /\ answers' = answers \cup {<<op, key, digest, Replayed(prior, outcome)>>}
          /\ UNCHANGED idempotency
    /\ UNCHANGED <<publisher, network, inbox>>

InboxNext ==
    \/ \E b \in Encodings : Publish(b)
    \/ \E i \in IDs, t \in BOOLEAN : Send(i, t)
    \/ \E i \in IDs, b \in Encodings : Rebuild(i, b)
    \/ \E m \in network : Lose(m)
    \/ \E m \in network : DeliverEvent(m)
    \/ \E m \in network : DeliverDuplicate(m)
    \/ \E op \in Operations, key \in Keys, d \in RequestBytes, o \in Outcomes :
          RecordRequest(op, key, d, o)

InboxSpec == InboxInit /\ [][InboxNext]_inboxVars

\* The publisher keeps sending, with its trace context, the first event that
\* was not accepted, and the network does not lose every copy of it.
Retransmission ==
    WF_inboxVars(\E i \in IDs : i = lastSequence + 1 /\ Send(i, TRUE))
FairLoss ==
    SF_inboxVars(\E m \in network : DeliverEvent(m))

FairInboxSpec == InboxSpec /\ Retransmission /\ FairLoss
------------------------------------------------------------------------------
\* The publisher, the network and the worker hold messages and requests.
InboxTypeOK ==
    /\ published \in 0 .. MaxEvents
    /\ log \in [IDs -> Encodings \cup {None}]
    /\ network \subseteq Message
    /\ events \in [IDs -> Message \cup {None}]
    /\ lastSequence \in 0 .. MaxEvents
    /\ acked \subseteq IDs \X Encodings
    /\ idempotency \in [Operations \X Keys -> Request \cup {None}]
    /\ delivered \in Seq(IDs)
    /\ answers \subseteq Operations \X Keys \X RequestBytes \X Outcomes

\* The events on record are exactly the ones up to the last number, each under
\* its own number and with its trace context, however often and in whatever
\* order their copies arrived (worker.go:289-302).
NoGapOnRecord ==
    \A i \in IDs :
        /\ events[i] # None <=> i <= lastSequence
        /\ events[i] # None => events[i].sequence = i /\ events[i].trace

\* The publisher and the worker agree on every acknowledged event: whatever
\* versions were sent and however often, the version that was acknowledged is
\* the one that took effect, so there is only one (worker.go:289-303).
AcknowledgedIsRecorded ==
    \A a \in acked : /\ events[a[1]] # None
                     /\ events[a[1]].bytes = a[2]

\* All the callers that share an operation and a key are told one outcome, the
\* one of the caller whose request is on record, and sent the same request
\* (worker.go:273-283; the test races 32 callers once).
FirstOutcomeWins ==
    \A x \in answers :
        LET record == idempotency[<<x[1], x[2]>>] IN
        /\ record # None
        /\ record = [digest |-> x[3], outcome |-> x[4]]

\* The worker's inbox is an ordered delivery of the published events: in order,
\* once each, and all of them arrive under the fairness above.
Ordered == INSTANCE OrderedDelivery
IsOrderedDelivery == Ordered!ODSpec
=============================================================================
