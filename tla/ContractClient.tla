---------------------------- MODULE ContractClient ----------------------------
(*****************************************************************************)
(* The code that the three generated Go clients of packages/contracts-go     *)
(* share (generated/{agentclient,pagixclient,agentruntimeclient}): how a     *)
(* request is put together from the caller's parameters, and what is made    *)
(* of an answer.  AgentClient, PagixClient and RuntimeClient are the         *)
(* operations themselves.                                                    *)
(*                                                                           *)
(* A body is a size and a content: the name of the document it is, "empty"   *)
(* for an object without fields, "other" for JSON that is no document at all *)
(* (an unknown field or one that comes twice, a null, a second value behind  *)
(* the first) and "text" for what is not JSON.                               *)
(*****************************************************************************)
EXTENDS Naturals, Sequences

CONSTANTS
    MaximumResponseBody,  \* maximumResponseBodyBytes, in some unit of size
    Missing               \* a header, document or status that there is not

ASSUME ClientAssumption ==
    /\ MaximumResponseBody \in Nat \ {0}
    /\ Missing \notin Nat \cup {"empty", "other", "text", "ProblemDetails"}

------------------------------------------------------------------------------
\* The client, made with its options: the default one gives up on an answer
\* after a while (30 seconds), one that the caller brings along is used as it is.
NewClient(doer) == [timeout |-> IF doer = Missing THEN TRUE ELSE doer]

------------------------------------------------------------------------------
\* The headers that the builders set, and what they add for one operation.
ReadHeaders == {"traceparent"}

CommandHeaders == ReadHeaders \cup {"Idempotency-Key", "X-AnvilKit-Request-Digest"}
ConditionalHeaders == CommandHeaders \cup {"If-Match"}

BugReplayUnmarked == {"X-AnvilKit-Request-Digest"}

\* The headers that are decoded from the answer.
ReplayHeaders == {"Idempotency-Replayed", "X-AnvilKit-Request-Digest"}
RevisionHeaders == ReplayHeaders \cup {"ETag"}

\* The statuses whose problem documents are decoded.
ReadProblems == {401, 403, 404, 500}
CommandProblems == ReadProblems \cup {400, 409, 422}
ConditionalProblems == CommandProblems \cup {412, 428}

Get(path, headers) ==
    [method |-> "GET", path |-> path, headers |-> headers, body |-> FALSE]
Post(path, headers) ==
    [method |-> "POST", path |-> path, headers |-> headers, body |-> TRUE]
BodylessPost(path, headers) ==
    [method |-> "POST", path |-> path, headers |-> headers, body |-> FALSE]

Decodes(success, document, problems, headers) ==
    [success |-> success, document |-> document,
     problems |-> problems, headers |-> headers]

Call(request, answer) == [request |-> request, answer |-> answer]

------------------------------------------------------------------------------
Carried(request, header, value) ==
    IF header \in request.headers THEN value ELSE Missing

BugKeyFromTrace(request, params) ==
    [key    |-> Carried(request, "Idempotency-Key", params.trace),
     digest |-> Carried(request, "X-AnvilKit-Request-Digest", params.digest),
     match  |-> Carried(request, "If-Match", params.match),
     trace  |-> Carried(request, "traceparent", params.trace)]

\* The headers of a request, each from the parameter of its own name.
Build(request, params) ==
    [key    |-> Carried(request, "Idempotency-Key", params.key),
     digest |-> Carried(request, "X-AnvilKit-Request-Digest", params.digest),
     match  |-> Carried(request, "If-Match", params.match),
     trace  |-> Carried(request, "traceparent", params.trace)]

------------------------------------------------------------------------------
\* One byte more than the maximum is read, to tell a body that ends there from
\* one that goes on; a longer one is an error.
ReadBoundedResponseBody(size) == size <= MaximumResponseBody

\* The one value in the body is an object with no field but the document's and
\* none of them twice.  None is required: an object without fields is decoded as
\* any document.
DecodeStrictResponseJSON(content, document) == content \in {document, "empty"}

Failed == [kind |-> "error", status |-> Missing, etag |-> Missing,
           digest |-> Missing, replayed |-> Missing]

\* A header is decoded when the operation declares it for the status it
\* expects; its absence is not an error.
Decoded(answer, rsp, header, value) ==
    IF rsp.status = answer.success /\ header \in answer.headers THEN value ELSE Missing

BugConflictIsStale(kind, answer, rsp) ==
    [kind     |-> kind,
     status   |-> IF rsp.status = 409 THEN 412 ELSE rsp.status,
     etag     |-> Decoded(answer, rsp, "ETag", rsp.etag),
     digest   |-> Decoded(answer, rsp, "X-AnvilKit-Request-Digest", rsp.digest),
     replayed |-> Decoded(answer, rsp, "Idempotency-Replayed", rsp.replayed)]

Outcome(kind, answer, rsp) ==
    [kind     |-> kind,
     status   |-> rsp.status,
     etag     |-> Decoded(answer, rsp, "ETag", rsp.etag),
     digest   |-> Decoded(answer, rsp, "X-AnvilKit-Request-Digest", rsp.digest),
     replayed |-> Decoded(answer, rsp, "Idempotency-Replayed", rsp.replayed)]

Documented(answer, rsp) ==
    /\ rsp.status = answer.success
    /\ answer.document = Missing \/ rsp.json

Refused(answer, rsp) == rsp.json /\ rsp.status \in answer.problems

\* What the caller gets of an answer: its document, the problem it states, the
\* bytes alone (and no error) when neither its status nor its content type is
\* one that the operation knows, or an error.
Parse(answer, rsp) ==
    IF ~ReadBoundedResponseBody(rsp.size) THEN Failed
    ELSE CASE Documented(answer, rsp) ->
                IF answer.document = Missing
                   \/ DecodeStrictResponseJSON(rsp.content, answer.document)
                THEN Outcome("document", answer, rsp) ELSE Failed
           [] Refused(answer, rsp) ->
                IF DecodeStrictResponseJSON(rsp.content, "ProblemDetails")
                THEN Outcome("problem", answer, rsp) ELSE Failed
           [] OTHER -> Outcome("bytes", answer, rsp)
==============================================================================
