----------------------------- MODULE ContractCalls -----------------------------
(*****************************************************************************)
(* One caller sees one operation of a generated client through: it sends the *)
(* request, gives up or gets an answer, and sends the same command again     *)
(* until it knows what became of it.  Every operation of the three clients   *)
(* is taken in turn.                                                         *)
(*                                                                           *)
(* The clients are the code.  The rest is what they are used with, and is    *)
(* modelled from what they rely on: the service of ADR-021 and the OpenAPI   *)
(* documents (a key is applied once and answered again as recorded, a stale  *)
(* If-Match is refused), a network that loses and delays, a Go transport     *)
(* that may send again a request that it knows to be idempotent, and proxies *)
(* that answer in the service's place.  The caller mints its key with its    *)
(* first attempt and a trace context with each, and believes a document of a *)
(* command only when it states the digest that was sent.                     *)
(*****************************************************************************)
EXTENDS AgentClient, PagixClient, RuntimeClient

CONSTANTS
    MaxAttempts,  \* bound: how often the caller sends
    MaxFaults,    \* bound: losses, delays, repetitions and foreign answers
    MaxMoves      \* bound: how often somebody else changes the resource

ASSUME CallsAssumption ==
    MaxAttempts \in Nat /\ MaxFaults \in Nat /\ MaxMoves \in Nat

\* The operations of the three clients; their names are all different.
Names == DOMAIN AgentOperations \cup DOMAIN PagixOperations \cup DOMAIN RuntimeOperations

Operations == [o \in Names |->
                  IF o \in DOMAIN AgentOperations THEN AgentOperations[o]
                  ELSE IF o \in DOMAIN PagixOperations THEN PagixOperations[o]
                  ELSE RuntimeOperations[o]]

Commands == {op \in DOMAIN Operations : Operations[op].request.method = "POST"}

VARIABLES
    op, client,
    rewind,      \* the body can be read a second time (not so a caller's reader)
    phase,       \* of the caller: ready to send, waiting, done
    attempt,     \* of the caller: the number of the last attempt
    etag,        \* of the caller: the revision it knows, or Missing
    outcome,     \* of the caller: what the last attempt came to
    requests,    \* in transit, each at most once
    answers,     \* in transit, to the attempt that is waited for
    revision,    \* the service: of the resource
    recorded,    \* the service: the keys under which an outcome is recorded
    faults, moves,
    \* History, read by no step of the code:
    applied,     \* the attempts whose request took effect, in order
    stale        \* the last attempt that the caller was told was stale

call    == <<op, client, rewind>>
caller  == <<phase, attempt, etag, outcome, stale>>
network == <<requests, answers>>
service == <<revision, recorded, applied>>
vars    == <<call, caller, network, service, faults, moves>>

request == Operations[op].request
answer  == Operations[op].answer

Bodies(o) == IF Operations[o].request.body THEN BOOLEAN ELSE {TRUE}

Init == /\ op \in DOMAIN Operations
        /\ client \in {NewClient(doer) : doer \in {Missing, FALSE}}
        /\ rewind \in Bodies(op)
        /\ phase = "ready" /\ attempt = 0 /\ etag = 1 /\ outcome = Failed
        /\ requests = {} /\ answers = {}
        /\ revision = 1 /\ recorded = {} /\ applied = <<>>
        /\ faults = 0 /\ moves = 0 /\ stale = 0

------------------------------------------------------------------------------
\* The caller.

\* The key and the digest are those of the one command.
Params(n) == [key |-> 1, digest |-> 1, match |-> etag, trace |-> n]

\* A call builds its request from the parameters and a body, and runs the
\* request editors.  A reader that was read before has nothing left to send.
Send ==
    /\ phase = "ready"
    /\ attempt < MaxAttempts
    /\ "If-Match" \in request.headers => etag # Missing
    /\ attempt' = attempt + 1
    /\ requests' = requests \cup
           {[attempt |-> attempt + 1,
             headers |-> Build(request, Params(attempt + 1)),
             whole   |-> rewind \/ attempt = 0]}
    /\ phase' = "waiting"
    /\ UNCHANGED <<call, etag, outcome, stale, answers, service, faults, moves>>

\* The caller is done with a problem that a repetition would meet again.
Final(o) == o.kind = "problem" /\ o.status \notin {412, 428, 500}

\* A document tells that a command took effect when it states its digest.
Believed(o) == o.kind = "document" /\ (op \in Commands => o.digest = 1)

Receive(rsp) ==
    LET o == Parse(answer, rsp) IN
    /\ phase = "waiting"
    /\ rsp \in answers
    /\ answers' = {}
    /\ outcome' = o
    /\ phase' = IF Final(o) \/ Believed(o) THEN "done" ELSE "ready"
    /\ etag' = IF o.kind = "problem" /\ o.status = 412 THEN Missing ELSE etag
    /\ stale' = IF o.kind = "problem" /\ o.status = 412 THEN attempt ELSE stale
    /\ UNCHANGED <<call, attempt, requests, service, faults, moves>>

Pending == answers # {} \/ \E m \in requests : m.attempt = attempt

Fault == faults < MaxFaults /\ faults' = faults + 1

\* The client's own timeout; what is in transit stays so, but for an answer.
GiveUp ==
    /\ phase = "waiting"
    /\ client.timeout
    /\ IF Pending THEN Fault ELSE UNCHANGED faults
    /\ phase' = "ready"
    /\ outcome' = Failed
    /\ answers' = {}
    /\ UNCHANGED <<call, attempt, etag, stale, requests, service, moves>>

\* The operations that read the resource which op changes, and its revision.
Readers == {r \in DOMAIN Operations :
               LET read == Operations[r].request IN
               /\ read.method = "GET"
               /\ Len(read.path) <= Len(request.path)
               /\ SubSeq(request.path, 1, Len(read.path)) = read.path
               /\ "ETag" \in Operations[r].answer.headers}

\* The caller reads the resource again (a call of its own, here one step).
Refresh ==
    /\ phase = "ready"
    /\ etag = Missing
    /\ Readers # {}
    /\ etag' = revision
    /\ UNCHANGED <<call, phase, attempt, outcome, stale, network, service, faults, moves>>

------------------------------------------------------------------------------
\* The service, as ADR-021 and the OpenAPI documents have it.

\* A command of a runtime may come after its lease, a cursor after its events.
Expiring == \/ /\ op \in Commands
               /\ \/ request.path[1] = "task"
                  \/ SubSeq(request.path, 1, 2) = <<"internal", "runtime">>
            \/ op = "StreamAgentRunEvents"

Conditional == /\ op \in Commands
               /\ \E i \in DOMAIN request.path : request.path[i] \in {"{runId}", "{artifactId}"}

\* The problems that a request may meet for reasons of its own; who the caller
\* is counts for a replay as well.
Refusals == {401, 403, 404}
            \cup (IF op \in Commands THEN {409} ELSE {})
            \cup (IF request.body THEN {422} ELSE {})
            \cup (IF Expiring THEN {410} ELSE {})

Problem(status) ==
    [status |-> status, json |-> TRUE, content |-> "ProblemDetails", size |-> 1,
     etag |-> Missing, digest |-> Missing, replayed |-> Missing]

\* What an operation without a decoded document answers is a stream of events.
Recorded(m, replayed) ==
    [status   |-> IF answer.success = Missing THEN 200 ELSE answer.success,
     json     |-> answer.document # Missing,
     content  |-> IF answer.document = Missing THEN "text" ELSE answer.document,
     size     |-> MaximumResponseBody,
     etag     |-> revision,
     digest   |-> m.headers.digest,
     replayed |-> replayed]

\* An answer reaches the caller while it waits for this attempt.
Reply(m, rsp) ==
    /\ requests' = requests \ {m}
    /\ answers' = IF phase = "waiting" /\ m.attempt = attempt
                  THEN answers \cup {rsp} ELSE answers

Known(m) == m.headers.key \in recorded

Admissible(m) == op \in Commands => /\ m.headers.key # Missing
                                    /\ m.headers.digest # Missing
                                    /\ m.whole

Precondition(m) == IF ~Conditional THEN Missing
                   ELSE IF m.headers.match = Missing THEN 428
                   ELSE IF m.headers.match # revision THEN 412 ELSE Missing

\* The checks that need no judgement: a malformed command, a missing or stale
\* precondition.
Reject(m) ==
    /\ m \in requests
    /\ \/ ~Admissible(m) /\ Reply(m, Problem(400))
       \/ /\ Admissible(m) /\ ~Known(m)
          /\ Precondition(m) # Missing
          /\ Reply(m, Problem(Precondition(m)))
    /\ UNCHANGED <<call, caller, service, faults, moves>>

Refuse(m) ==
    /\ m \in requests
    /\ \E status \in IF Known(m) THEN {401, 403} ELSE Refusals :
           Reply(m, Problem(status))
    /\ UNCHANGED <<call, caller, service, faults, moves>>

\* An internal problem, before the request took effect.
Break(m) ==
    /\ m \in requests
    /\ Fault
    /\ Reply(m, Problem(500))
    /\ UNCHANGED <<call, caller, service, moves>>

Replay(m) ==
    /\ m \in requests
    /\ op \in Commands /\ Admissible(m) /\ Known(m)
    /\ Reply(m, Recorded(m, "true"))
    /\ UNCHANGED <<call, caller, service, faults, moves>>

Apply(m) ==
    /\ m \in requests
    /\ op \in Commands /\ Admissible(m) /\ ~Known(m)
    /\ Precondition(m) = Missing
    /\ recorded' = recorded \cup {m.headers.key}
    /\ applied' = Append(applied, m.attempt)
    /\ revision' = revision + 1
    /\ Reply(m, Recorded(m, "false"))
    /\ UNCHANGED <<call, caller, faults, moves>>

Read(m) ==
    /\ m \in requests
    /\ op \notin Commands
    /\ Reply(m, Recorded(m, Missing))
    /\ UNCHANGED <<call, caller, service, faults, moves>>

\* Somebody else changes the resource.
Move ==
    /\ moves < MaxMoves
    /\ Conditional
    /\ moves' = moves + 1
    /\ revision' = revision + 1
    /\ UNCHANGED <<call, caller, network, recorded, applied, faults>>

------------------------------------------------------------------------------
\* The network.

Lose ==
    /\ Fault
    /\ \/ \E m \in requests : requests' = requests \ {m} /\ UNCHANGED answers
       \/ answers # {} /\ answers' = {} /\ UNCHANGED requests
    /\ UNCHANGED <<call, caller, service, moves>>

\* net/http sends a request again when its connection broke, whether or not it
\* was served, if the method is safe or an Idempotency-Key is set and the body
\* can be had again.
Resend ==
    /\ phase = "waiting"
    /\ \A m \in requests : m.attempt # attempt
    /\ rewind
    /\ request.method = "GET" \/ "Idempotency-Key" \in request.headers
    /\ Fault
    /\ requests' = requests \cup {[attempt |-> attempt,
                                   headers |-> Build(request, Params(attempt)),
                                   whole   |-> TRUE]}
    /\ answers' = {}
    /\ UNCHANGED <<call, caller, service, moves>>

\* What a proxy may answer in the service's place, with the status of success or
\* not: some JSON, or a page of its own, of any length.
Pages == {<<TRUE, "empty", 1>>, <<TRUE, "other", 1>>, <<FALSE, "text", 1>>,
          <<TRUE, "empty", MaximumResponseBody + 1>>}

Page(status, page) ==
    [Problem(status) EXCEPT !.json = page[1], !.content = page[2], !.size = page[3]]

Foreign == {Page(status, page) :
               status \in {answer.success, 502} \ {Missing}, page \in Pages}

Intercept ==
    /\ phase = "waiting"
    /\ Fault
    /\ \E rsp \in Foreign : answers' = {rsp}
    /\ UNCHANGED <<call, caller, requests, service, moves>>

------------------------------------------------------------------------------
Serve(m) == Reject(m) \/ Refuse(m) \/ Replay(m) \/ Apply(m) \/ Read(m)

Next ==
    \/ Send
    \/ GiveUp
    \/ Refresh
    \/ \E rsp \in answers : Receive(rsp)
    \/ \E m \in requests : Reject(m)
    \/ \E m \in requests : Refuse(m)
    \/ \E m \in requests : Break(m)
    \/ \E m \in requests : Replay(m)
    \/ \E m \in requests : Apply(m)
    \/ \E m \in requests : Read(m)
    \/ Move
    \/ Lose
    \/ Resend
    \/ Intercept

Spec == Init /\ [][Next]_vars

\* The caller goes on until it knows; the service serves what reaches it, and an
\* answer that is under way arrives.  Faults are not fair, and neither is a
\* timeout while an answer may still come.
FairSpec ==
    /\ Spec
    /\ WF_vars(Send) /\ WF_vars(Refresh)
    /\ WF_vars(~Pending /\ GiveUp)
    /\ WF_vars(\E rsp \in answers : Receive(rsp))
    /\ WF_vars(\E m \in requests : m.attempt = attempt /\ Serve(m))
------------------------------------------------------------------------------
Request == [attempt : 1 .. MaxAttempts,
            headers : [key : {1, Missing}, digest : {1, Missing},
                       match : Nat \cup {Missing}, trace : Nat \cup {Missing}],
            whole   : BOOLEAN]

TypeOK ==
    /\ op \in DOMAIN Operations
    /\ client \in [timeout : BOOLEAN] /\ rewind \in BOOLEAN
    /\ phase \in {"ready", "waiting", "done"}
    /\ attempt \in 0 .. MaxAttempts /\ stale \in 0 .. attempt
    /\ etag \in Nat \cup {Missing}
    /\ requests \subseteq Request
    /\ revision \in Nat /\ recorded \subseteq {1}
    /\ applied \in Seq(1 .. MaxAttempts)
    /\ faults \in 0 .. MaxFaults /\ moves \in 0 .. MaxMoves

\* However often a command is sent, by the caller or by the transport, it takes
\* effect at most once, and one that only reads takes none: every attempt
\* carries the key that was minted for the first (the builders' Idempotency-Key).
AppliedOnce == Len(applied) <= IF op \in Commands THEN 1 ELSE 0

\* A caller that is given a document with its digest knows that the command took
\* effect, and a result that is not marked as replayed is that of this attempt,
\* whatever else answered in the service's place (Parse...Response and the
\* header bindings behind it).
DocumentIsProof ==
    outcome.kind = "document" /\ op \in Commands /\ outcome.digest = 1 =>
        /\ applied # <<>>
        /\ outcome.replayed # "true" => applied[Len(applied)] = attempt

\* A stale precondition is the end of what was sent until then: no copy of an
\* attempt that was answered 412, nor of one before it, takes effect later, so
\* the caller may decide anew on what it reads next.
StaleIsFinal == [][applied' # applied => applied'[Len(applied')] > stale]_vars

\* What the service answers always has a meaning for the client: a document or a
\* problem of its own.  Only the event stream is handed over as bytes.
ServiceIsUnderstood ==
    \A rsp \in answers :
        rsp.content \in {"ProblemDetails", answer.document} =>
            Parse(answer, rsp).kind \in {"document", "problem"}

\* The revision of an artifact cannot be read with the clients.
OnArtifact == \E i \in DOMAIN request.path : request.path[i] = "{artifactId}"

\* Every call comes to an end that the caller can tell, its document or the
\* service's refusal, whatever is lost or stale on the way: if the client gives
\* up on lost answers and the operation has an answer to decode.  A command on
\* an artifact is left out, whose revision, once stale, is not to be had.
GetsThrough ==
    client.timeout /\ answer.success # Missing /\ ~(Conditional /\ OnArtifact)
        => <>(phase = "done")
==============================================================================
