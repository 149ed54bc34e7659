-------------------------- MODULE ContractCallsProofs --------------------------
(*****************************************************************************)
(* Proofs about ContractCalls, for any number of attempts, faults and        *)
(* changes by others: a command takes effect once, a document with its       *)
(* digest is proof of that, a stale answer is the end of what was sent until *)
(* then, and the service is always understood.  All the proofs need of the   *)
(* tables of operations is stated in TablesAreSound and StreamMayExpire.     *)
(*****************************************************************************)
EXTENDS ContractCalls, TLAPS

\* What the service recorded is what took effect, at most once, and only for a
\* command.
Effects ==
    /\ Len(applied) <= 1
    /\ applied = <<>> <=> recorded = {}
    /\ op \notin Commands => applied = <<>>

Matches == "If-Match" \in request.headers

\* What a request may match: nothing newer than what the caller has known, and
\* when the caller has just been told that it is stale, nothing current.
Preconditions ==
    /\ etag \in Nat => etag <= revision
    /\ Matches /\ phase = "waiting" => etag \in Nat
    /\ phase = "waiting" => stale < attempt
    /\ \A m \in requests :
          /\ m.attempt <= attempt
          /\ Matches => /\ m.headers.match \in Nat
                        /\ m.headers.match <= revision
                        /\ etag \in Nat => m.headers.match <= etag
                        /\ etag = Missing => m.headers.match < revision
                        /\ phase = "waiting" /\ m.attempt = attempt => m.headers.match = etag
          /\ ~Matches => m.headers.match = Missing

\* What was told stale before can take effect no more.
StaleStaysStale ==
    \A m \in requests :
        m.attempt <= stale => Matches /\ Conditional /\ m.headers.match < revision

\* What an answer on its way says.
IsTrue(rsp) ==
    /\ rsp.status = 412 => Matches /\ Conditional /\ etag < revision
    /\ op \in Commands /\ rsp.digest = 1 =>
          /\ applied # <<>>
          /\ rsp.replayed # "true" => applied[Len(applied)] = attempt

AnswersAreTrue == /\ phase # "waiting" => answers = {}
                  /\ \A rsp \in answers : IsTrue(rsp)

\* What was believed is the end.
ProofIsFinal ==
    outcome.kind = "document" /\ op \in Commands /\ outcome.digest = 1
        => phase = "done"

\* The inductive invariant.
Calls == /\ TypeOK
         /\ Effects
         /\ Preconditions
         /\ StaleStaysStale
         /\ AnswersAreTrue
         /\ ProofIsFinal
         /\ DocumentIsProof
------------------------------------------------------------------------------
\* What the proofs need of an operation: no success is also the status of a
\* problem, where the digest is decoded so is the mark of a replay, and every
\* problem that the service may answer with is one that is decoded.
Resource == {"{runId}", "{artifactId}"}
OnResource(path) == \E i \in DOMAIN path : path[i] \in Resource
OfRuntime(path) == path[1] = "task" \/ (path[1] = "internal" /\ path[2] = "runtime")

NoDocuments == {"empty", "other", "text", "ProblemDetails"}

Marked(headers) ==
    "X-AnvilKit-Request-Digest" \in headers => "Idempotency-Replayed" \in headers

SoundCommand(o) ==
    /\ {400, 409} \subseteq o.answer.problems
    /\ o.request.body => 422 \in o.answer.problems
    /\ OnResource(o.request.path) => {412, 428} \subseteq o.answer.problems
    /\ OfRuntime(o.request.path) => 410 \in o.answer.problems

Sound(o) ==
    /\ o.answer.success \in {200, 201, 204, Missing}
    /\ o.answer.success = Missing => o.answer.document = Missing
    /\ o.answer.document \notin NoDocuments
    /\ Marked(o.answer.headers)
    /\ o.answer.success \notin o.answer.problems
    /\ ReadProblems \subseteq o.answer.problems
    /\ o.request.method = "POST" => SoundCommand(o)
    /\ o.request.method # "POST" => ~o.request.body

\* A path of one segment that names no resource; likewise of three and of four.
LEMMA OneSegment ==
    ASSUME NEW a, a \notin Resource PROVE ~OnResource(<<a>>)
<1> DEFINE path == <<a>>
<1>1. DOMAIN path = 1 .. 1 /\ path[1] = a
    OBVIOUS
<1> HIDE DEF path
<1>2. \A i \in 1 .. 1 : path[i] \notin Resource
    BY <1>1
<1> QED BY <1>1, <1>2 DEF OnResource, path

\* Three segments, none of which names a resource.
LEMMA ThreeSegments ==
    ASSUME NEW a, NEW b, NEW c, {a, b, c} \cap Resource = {} PROVE ~OnResource(<<a, b, c>>)
<1> DEFINE path == <<a, b, c>>
<1>1. DOMAIN path = 1 .. 3 /\ path[1] = a /\ path[2] = b /\ path[3] = c
    OBVIOUS
<1> HIDE DEF path
<1>2. \A i \in 1 .. 3 : path[i] \notin Resource
    BY <1>1
<1> QED BY <1>1, <1>2 DEF OnResource, path

\* Four segments, none of which names a resource.
LEMMA FourSegments ==
    ASSUME NEW a, NEW b, NEW c, NEW d, {a, b, c, d} \cap Resource = {}
    PROVE  ~OnResource(<<a, b, c, d>>)
<1> DEFINE path == <<a, b, c, d>>
<1>1. /\ DOMAIN path = 1 .. 4
      /\ path[1] = a /\ path[2] = b /\ path[3] = c /\ path[4] = d
    OBVIOUS
<1> HIDE DEF path
<1>2. \A i \in 1 .. 4 : path[i] \notin Resource
    BY <1>1
<1> QED BY <1>1, <1>2 DEF OnResource, path

\* An operation that reads, on whatever path.
LEMMA ReadIsSound ==
    ASSUME NEW path, NEW headers, NEW success \in {200, Missing}, NEW document, NEW problems,
           NEW decoded, success = Missing => document = Missing,
           document \notin NoDocuments, Marked(decoded),
           success \notin problems, ReadProblems \subseteq problems
    PROVE  Sound(Call(Get(path, headers), Decodes(success, document, problems, decoded)))
BY DEF Sound, Call, Get, Decodes

\* A command with a body, on a path outside of the runtime's.
LEMMA CommandIsSound ==
    ASSUME NEW path, NEW headers, NEW success \in {200, 201, 204}, NEW document,
           NEW problems, NEW decoded, document \notin NoDocuments, Marked(decoded),
           success \notin problems, CommandProblems \subseteq problems,
           OnResource(path) => {412, 428} \subseteq problems, ~OfRuntime(path)
    PROVE  Sound(Call(Post(path, headers), Decodes(success, document, problems, decoded)))
BY ClientAssumption
   DEF Sound, SoundCommand, Call, Post, Decodes, CommandProblems, ReadProblems

\* A command on a run that has no body, and so none to find invalid.
LEMMA BodylessIsSound ==
    ASSUME NEW path, NEW headers, ~OfRuntime(path)
    PROVE  Sound(Call(BodylessPost(path, headers),
                      Decodes(200, "AgentRun", ConditionalProblems \ {422}, RevisionHeaders)))
BY ClientAssumption
   DEF Sound, SoundCommand, Call, BodylessPost, Decodes, ConditionalProblems, CommandProblems,
       ReadProblems, RevisionHeaders, ReplayHeaders, NoDocuments, Marked

\* A path below a workspace.
LEMMA OfWorkspace ==
    /\ \A a, b : ~OfRuntime(<<"workspaces", a, b>>)
    /\ \A a, b, c, d : ~OfRuntime(<<"workspaces", a, b, c, d>>)
    /\ \A a, b, c, d, e, f : ~OfRuntime(<<"workspaces", a, b, c, d, e, f>>)
BY DEF OfRuntime

\* The agent client's table, row by row.
LEMMA AgentTableIsSound ==
    ASSUME NEW o \in DOMAIN AgentOperations PROVE Sound(AgentOperations[o])
<1>1. /\ Marked({}) /\ Marked({"ETag"}) /\ Marked({"Link"})
      /\ Marked(ReplayHeaders) /\ Marked(RevisionHeaders)
      /\ Marked(RevisionHeaders \cup {"Location"})
    BY DEF Marked, ReplayHeaders, RevisionHeaders
<1>2. /\ ReadProblems \subseteq ReadProblems \cup {410}
      /\ CommandProblems \subseteq ConditionalProblems
      /\ {412, 428} \subseteq ConditionalProblems
      /\ {200, 201, 204} \cap ConditionalProblems = {}
      /\ 200 \notin ReadProblems /\ Missing \notin ReadProblems \cup {410}
    BY ClientAssumption DEF ConditionalProblems, CommandProblems, ReadProblems
<1>3. Sound(ListAgentRuns)
    <2>1. \A path, headers :
              Sound(Call(Get(path, headers),
                  Decodes(200, "AgentRunPage", ReadProblems, {})))
        BY <1>1, <1>2, ReadIsSound, ClientAssumption DEF NoDocuments
    <2> QED
        BY ONLY <2>1
        DEF ListAgentRuns, NewListAgentRunsRequest, ParseListAgentRunsResponse
<1>4. Sound(CreateAgentRun)
    <2>1. \A path, headers :
              ~OfRuntime(path) /\ ~OnResource(path) => Sound(Call(Post(path, headers),
                  Decodes(201, "AgentRun", CommandProblems, RevisionHeaders \cup {"Location"})))
        BY <1>1, <1>2, CommandIsSound, ClientAssumption DEF NoDocuments
    <2>2. ~OnResource(<<"workspaces", "{workspaceId}", "agent-runs">>)
        BY ThreeSegments DEF Resource
    <2> QED
        BY ONLY <2>1, <2>2, OfWorkspace
        DEF CreateAgentRun, NewCreateAgentRunRequest, ParseCreateAgentRunResponse
<1>5. Sound(GetAgentRun)
    <2>1. \A path, headers :
              Sound(Call(Get(path, headers),
                  Decodes(200, "AgentRun", ReadProblems, {"ETag"})))
        BY <1>1, <1>2, ReadIsSound, ClientAssumption DEF NoDocuments
    <2> QED
        BY ONLY <2>1
        DEF GetAgentRun, NewGetAgentRunRequest, ParseGetAgentRunResponse
<1>6. Sound(IssueApplyAuthorization)
    <2>1. \A path, headers :
              ~OfRuntime(path) => Sound(Call(Post(path, headers),
                  Decodes(201, "IssuedApplyAuthorization", ConditionalProblems, RevisionHeaders)))
        BY <1>1, <1>2, CommandIsSound, ClientAssumption DEF NoDocuments
    <2> QED
        BY ONLY <2>1, OfWorkspace
        DEF IssueApplyAuthorization, NewIssueApplyAuthorizationRequest,
            ParseIssueApplyAuthorizationResponse
<1>7. Sound(DecideAgentApproval)
    <2>1. \A path, headers :
              ~OfRuntime(path) => Sound(Call(Post(path, headers),
                  Decodes(200, "AgentRun", ConditionalProblems, RevisionHeaders)))
        BY <1>1, <1>2, CommandIsSound, ClientAssumption DEF NoDocuments
    <2> QED
        BY ONLY <2>1, OfWorkspace
        DEF DecideAgentApproval, NewDecideAgentApprovalRequest, ParseDecideAgentApprovalResponse
<1>8. Sound(CancelAgentRun)
    BY ONLY BodylessIsSound, OfWorkspace
    DEF CancelAgentRun, NewCancelAgentRunRequest, ParseCancelAgentRunResponse
<1>9. Sound(DiscardAgentRun)
    BY ONLY BodylessIsSound, OfWorkspace
    DEF DiscardAgentRun, NewDiscardAgentRunRequest, ParseDiscardAgentRunResponse
<1>10. Sound(ResolveAgentDomainOperation)
    <2>1. \A path, headers :
              ~OfRuntime(path) => Sound(Call(Post(path, headers),
                  Decodes(200, "AgentRun", ConditionalProblems, RevisionHeaders)))
        BY <1>1, <1>2, CommandIsSound, ClientAssumption DEF NoDocuments
    <2> QED
        BY ONLY <2>1, OfWorkspace
        DEF ResolveAgentDomainOperation, NewResolveAgentDomainOperationRequest,
            ParseResolveAgentDomainOperationResponse
<1>11. Sound(StreamAgentRunEvents)
    <2>1. \A path, headers :
              Sound(Call(Get(path, headers),
                  Decodes(Missing, Missing, ReadProblems \cup {410}, {"Link"})))
        BY <1>1, <1>2, ReadIsSound, ClientAssumption DEF NoDocuments
    <2> QED
        BY ONLY <2>1
        DEF StreamAgentRunEvents, NewStreamAgentRunEventsRequest,
            ParseStreamAgentRunEventsResponse
<1>12. Sound(RespondToAgentInput)
    <2>1. \A path, headers :
              ~OfRuntime(path) => Sound(Call(Post(path, headers),
                  Decodes(200, "AgentRun", ConditionalProblems, RevisionHeaders)))
        BY <1>1, <1>2, CommandIsSound, ClientAssumption DEF NoDocuments
    <2> QED
        BY ONLY <2>1, OfWorkspace
        DEF RespondToAgentInput, NewRespondToAgentInputRequest, ParseRespondToAgentInputResponse
<1>13. Sound(RetryAgentRun)
    BY ONLY BodylessIsSound, OfWorkspace
    DEF RetryAgentRun, NewRetryAgentRunRequest, ParseRetryAgentRunResponse
<1>14. Sound(GetAgentRunSnapshot)
    <2>1. \A path, headers :
              Sound(Call(Get(path, headers),
                  Decodes(200, "AgentRunSnapshot", ReadProblems, {})))
        BY <1>1, <1>2, ReadIsSound, ClientAssumption DEF NoDocuments
    <2> QED
        BY ONLY <2>1
        DEF GetAgentRunSnapshot, NewGetAgentRunSnapshotRequest, ParseGetAgentRunSnapshotResponse
<1>15. Sound(GetAgentArtifact)
    <2>1. \A path, headers :
              Sound(Call(Get(path, headers),
                  Decodes(200, "AgentArtifact", ReadProblems, {})))
        BY <1>1, <1>2, ReadIsSound, ClientAssumption DEF NoDocuments
    <2> QED
        BY ONLY <2>1
        DEF GetAgentArtifact, NewGetAgentArtifactRequest, ParseGetAgentArtifactResponse
<1>16. Sound(IssueAgentArtifactContentGrant)
    <2>1. \A path, headers :
              ~OfRuntime(path) => Sound(Call(Post(path, headers),
                  Decodes(201, "ArtifactContentGrant", ConditionalProblems, ReplayHeaders)))
        BY <1>1, <1>2, CommandIsSound, ClientAssumption DEF NoDocuments
    <2> QED
        BY ONLY <2>1, OfWorkspace
        DEF IssueAgentArtifactContentGrant, NewIssueAgentArtifactContentGrantRequest,
            ParseIssueAgentArtifactContentGrantResponse
<1>17. Sound(DecideAgentArtifactCustody)
    <2>1. \A path, headers :
              ~OfRuntime(path) => Sound(Call(Post(path, headers),
                  Decodes(204, Missing, ConditionalProblems, RevisionHeaders)))
        BY <1>1, <1>2, CommandIsSound, ClientAssumption DEF NoDocuments
    <2> QED
        BY ONLY <2>1, OfWorkspace
        DEF DecideAgentArtifactCustody, NewDecideAgentArtifactCustodyRequest,
            ParseDecideAgentArtifactCustodyResponse
<1> QED
    BY <1>3, <1>4, <1>5, <1>6, <1>7, <1>8, <1>9, <1>10, <1>11, <1>12, <1>13, <1>14,
       <1>15, <1>16, <1>17
    DEF AgentOperations

\* The Pagix client's table, row by row.
LEMMA PagixTableIsSound ==
    ASSUME NEW o \in DOMAIN PagixOperations PROVE Sound(PagixOperations[o])
<1> USE ClientAssumption
    DEF Call, Decodes, Get, Post, Sound, SoundCommand, OfRuntime, NoDocuments, Marked,
        ReplayHeaders, RevisionHeaders, ReadProblems, CommandProblems, ConditionalProblems
<1>1. Sound(FinalizeAgentAsset)
    <2>1. ~OnResource(<<"internal", "agent", "assets", "finalization">>)
        BY ONLY FourSegments DEF Resource
    <2> QED
        BY <2>1 DEF FinalizeAgentAsset, NewFinalizeAgentAssetRequest,
                    ParseFinalizeAgentAssetResponse
<1>2. Sound(ReserveAgentAsset)
    <2>1. ~OnResource(<<"internal", "agent", "assets", "reservations">>)
        BY ONLY FourSegments DEF Resource
    <2> QED
        BY <2>1 DEF ReserveAgentAsset, NewReserveAgentAssetRequest,
                    ParseReserveAgentAssetResponse
<1>3. Sound(CreateTargetSnapshot)
    <2>1. ~OnResource(<<"internal", "agent", "context-snapshots">>)
        BY ONLY ThreeSegments DEF Resource
    <2> QED
        BY <2>1 DEF CreateTargetSnapshot, NewCreateTargetSnapshotRequest,
                    ParseCreateTargetSnapshotResponse
<1>4. Sound(PersistAuthorizedPage)
    <2>1. ~OnResource(<<"internal", "agent", "domain", "page-persistence">>)
        BY ONLY FourSegments DEF Resource
    <2> QED
        BY <2>1 DEF PersistAuthorizedPage, NewPersistAuthorizedPageRequest,
                    ParsePersistAuthorizedPageResponse
<1>5. Sound(CheckAgentEntitlement)
    <2>1. ~OnResource(<<"internal", "agent", "entitlements", "check">>)
        BY ONLY FourSegments DEF Resource
    <2> QED
        BY <2>1 DEF CheckAgentEntitlement, NewCheckAgentEntitlementRequest,
                    ParseCheckAgentEntitlementResponse
<1>6. Sound(ObserveAgentUsage)
    <2>1. ~OnResource(<<"internal", "agent", "usage", "observations">>)
        BY ONLY FourSegments DEF Resource
    <2> QED
        BY <2>1 DEF ObserveAgentUsage, NewObserveAgentUsageRequest,
                    ParseObserveAgentUsageResponse
<1>7. Sound(ReconcileAgentUsage)
    <2>1. ~OnResource(<<"internal", "agent", "usage", "reconciliation">>)
        BY ONLY FourSegments DEF Resource
    <2> QED
        BY <2>1 DEF ReconcileAgentUsage, NewReconcileAgentUsageRequest,
                    ParseReconcileAgentUsageResponse
<1>8. Sound(ReserveAgentUsage)
    <2>1. ~OnResource(<<"internal", "agent", "usage", "reservations">>)
        BY ONLY FourSegments DEF Resource
    <2> QED
        BY <2>1 DEF ReserveAgentUsage, NewReserveAgentUsageRequest,
                    ParseReserveAgentUsageResponse
<1> HIDE DEF Call, Decodes, Get, Post, Sound, SoundCommand
<1> QED
    BY <1>1, <1>2, <1>3, <1>4, <1>5, <1>6, <1>7, <1>8 DEF PagixOperations

\* The runtime client's table, row by row.
LEMMA RuntimeTableIsSound ==
    ASSUME NEW o \in DOMAIN RuntimeOperations PROVE Sound(RuntimeOperations[o])
<1> USE ClientAssumption
    DEF Call, Decodes, Get, Post, Sound, SoundCommand, OfRuntime, NoDocuments, Marked,
        ReplayHeaders, RevisionHeaders, ReadProblems, CommandProblems, ConditionalProblems
<1>1. Sound(IssueRuntimeArtifactContentGrant)
    <2>1. ~OnResource(<<"internal", "runtime", "artifact-content-grants">>)
        BY ONLY ThreeSegments DEF Resource
    <2> QED
        BY <2>1 DEF IssueRuntimeArtifactContentGrant,
                    NewIssueRuntimeArtifactContentGrantRequest,
                    ParseIssueRuntimeArtifactContentGrantResponse
<1>2. Sound(SubmitRuntimeArtifact)
    <2>1. ~OnResource(<<"internal", "runtime", "artifacts">>)
        BY ONLY ThreeSegments DEF Resource
    <2> QED
        BY <2>1 DEF SubmitRuntimeArtifact, NewSubmitRuntimeArtifactRequest,
                    ParseSubmitRuntimeArtifactResponse
<1>3. Sound(InvokeGovernedContractRuntime)
    <2>1. ~OnResource(<<"internal", "runtime", "contract-runtime-invocations">>)
        BY ONLY ThreeSegments DEF Resource
    <2> QED
        BY <2>1 DEF InvokeGovernedContractRuntime,
                    NewInvokeGovernedContractRuntimeRequest,
                    ParseInvokeGovernedContractRuntimeResponse
<1>4. Sound(InvokeGovernedModel)
    <2>1. ~OnResource(<<"internal", "runtime", "model-invocations">>)
        BY ONLY ThreeSegments DEF Resource
    <2> QED
        BY <2>1 DEF InvokeGovernedModel, NewInvokeGovernedModelRequest,
                    ParseInvokeGovernedModelResponse
<1>5. Sound(DescribeAgentRuntimeRelease)
    BY DEF DescribeAgentRuntimeRelease, NewDescribeAgentRuntimeReleaseRequest,
           ParseDescribeAgentRuntimeReleaseResponse
<1>6. Sound(DispatchAgentTask)
    <2>1. ~OnResource(<<"task">>)
        BY ONLY OneSegment DEF Resource
    <2> QED
        BY <2>1 DEF DispatchAgentTask, NewDispatchAgentTaskRequest,
                    ParseDispatchAgentTaskResponse
<1> HIDE DEF Call, Decodes, Get, Post, Sound, SoundCommand
<1> QED
    BY <1>1, <1>2, <1>3, <1>4, <1>5, <1>6 DEF RuntimeOperations

\* Every operation that a behaviour may be about is sound.
LEMMA TablesAreSound == ASSUME NEW o \in DOMAIN Operations PROVE Sound(Operations[o])
<1>1. o \in Names /\ o \in DOMAIN AgentOperations => Sound(Operations[o])
    BY AgentTableIsSound DEF Operations
<1>2. /\ o \in Names /\ o \notin DOMAIN AgentOperations
      /\ o \in DOMAIN PagixOperations
      => Sound(Operations[o])
    BY PagixTableIsSound DEF Operations
<1>3. /\ o \in Names /\ o \notin DOMAIN AgentOperations
      /\ o \notin DOMAIN PagixOperations
      => Sound(Operations[o])
    BY RuntimeTableIsSound DEF Operations, Names
<1> QED BY <1>1, <1>2, <1>3 DEF Operations

\* The cursor of the event stream may have expired.
LEMMA StreamMayExpire == 410 \in Operations["StreamAgentRunEvents"].answer.problems
<1>1. /\ "StreamAgentRunEvents" \in DOMAIN AgentOperations
      /\ AgentOperations["StreamAgentRunEvents"] = StreamAgentRunEvents
    BY DEF AgentOperations
<1>2. Operations["StreamAgentRunEvents"] = StreamAgentRunEvents
    BY <1>1 DEF Operations, Names
<1>3. StreamAgentRunEvents.answer.problems = ReadProblems \cup {410}
    BY DEF StreamAgentRunEvents, ParseStreamAgentRunEventsResponse, Call, Decodes
<1> QED BY <1>2, <1>3
------------------------------------------------------------------------------
\* Every request is built from a key of 1, and matches what the caller knew.
LEMMA BuiltIsRequest ==
    ASSUME TypeOK, NEW n \in 1 .. MaxAttempts, NEW w \in BOOLEAN,
           NEW r, r = [attempt |-> n, headers |-> Build(request, Params(n)), whole |-> w]
    PROVE  /\ r \in Request
           /\ r.attempt = n
           /\ r.headers.match = IF Matches THEN etag ELSE Missing
<1>1. /\ Carried(request, "Idempotency-Key", 1) \in {1, Missing}
      /\ Carried(request, "X-AnvilKit-Request-Digest", 1) \in {1, Missing}
      /\ Carried(request, "If-Match", etag) \in Nat \cup {Missing}
      /\ Carried(request, "traceparent", n) \in Nat \cup {Missing}
      /\ Carried(request, "If-Match", etag) = IF Matches THEN etag ELSE Missing
    BY CallsAssumption DEF TypeOK, Carried, Matches
<1> HIDE DEF Carried
<1> QED BY <1>1 DEF Request, Build, Params

\* Nothing is sent, so nothing can be wrong.
LEMMA InitCalls == Init => Calls
<1> SUFFICES ASSUME Init PROVE Calls
    OBVIOUS
<1> USE ClientAssumption, CallsAssumption DEF Init
<1>1. TypeOK
    <2>1. client \in [timeout : BOOLEAN]
        <3>1. PICK doer \in {Missing, FALSE} : client = NewClient(doer)
            OBVIOUS
        <3>2. CASE doer = Missing
            BY <3>1, <3>2 DEF NewClient
        <3>3. CASE doer = FALSE
            BY <3>1, <3>3 DEF NewClient
        <3> QED BY <3>2, <3>3
    <2>2. rewind \in BOOLEAN
        BY DEF Bodies
    <2> QED BY <2>1, <2>2 DEF TypeOK
<1>2. Effects /\ Preconditions /\ StaleStaysStale /\ AnswersAreTrue
    BY DEF Effects, Preconditions, StaleStaysStale, AnswersAreTrue
<1>3. ProofIsFinal /\ DocumentIsProof
    BY DEF ProofIsFinal, DocumentIsProof, Failed
<1> QED BY <1>1, <1>2, <1>3 DEF Calls

------------------------------------------------------------------------------
\* Sending adds a request that matches what the caller knows.
LEMMA SendKeepsCalls == ASSUME Calls, Send PROVE Calls'
<1> USE ClientAssumption, CallsAssumption DEF Calls
<1> DEFINE r == [attempt |-> attempt + 1,
                 headers |-> Build(request, Params(attempt + 1)),
                 whole   |-> rewind \/ attempt = 0]
<1>1. /\ phase = "ready" /\ attempt < MaxAttempts /\ attempt' = attempt + 1
      /\ Matches => etag # Missing
      /\ requests' = requests \cup {r} /\ phase' = "waiting"
      /\ UNCHANGED <<op, client, rewind, etag, outcome, stale, answers,
                     revision, recorded, applied, faults, moves>>
    BY DEF Send, Matches, call, service
<1>2. /\ r \in Request /\ r.attempt = attempt + 1
      /\ r.headers.match = IF Matches THEN etag ELSE Missing
    <2>1. attempt + 1 \in 1 .. MaxAttempts /\ (rewind \/ attempt = 0) \in BOOLEAN
        BY <1>1 DEF TypeOK
    <2> QED BY <2>1, BuiltIsRequest
<1> HIDE DEF r
<1>3. TypeOK'
    BY <1>1, <1>2 DEF TypeOK, Request
<1>4. Effects'
    BY <1>1 DEF Effects
<1>5. (Matches' <=> Matches) /\ (Conditional' <=> Conditional)
    BY <1>1 DEF Matches, Conditional, request
<1>6. Preconditions' /\ StaleStaysStale'
    BY <1>1, <1>2, <1>5 DEF Preconditions, StaleStaysStale, TypeOK, Request
<1>7. AnswersAreTrue'
    BY <1>1 DEF AnswersAreTrue
<1>8. ProofIsFinal' /\ DocumentIsProof'
    BY <1>1 DEF ProofIsFinal, DocumentIsProof
<1> QED BY <1>3, <1>4, <1>6, <1>7, <1>8

\* The transport sends the request of the attempt that is waited for again.
LEMMA ResendKeepsCalls == ASSUME Calls, Resend PROVE Calls'
<1> USE ClientAssumption, CallsAssumption DEF Calls
<1> DEFINE r == [attempt |-> attempt,
                 headers |-> Build(request, Params(attempt)),
                 whole   |-> TRUE]
<1>1. /\ phase = "waiting" /\ requests' = requests \cup {r} /\ answers' = {}
      /\ UNCHANGED <<op, client, rewind, phase, attempt, etag, outcome, stale,
                     revision, recorded, applied, moves>>
      /\ faults' \in 0 .. MaxFaults
    BY DEF Resend, call, caller, service, Fault, TypeOK
<1>2. /\ r \in Request /\ r.attempt = attempt
      /\ r.headers.match = IF Matches THEN etag ELSE Missing
    <2>1. attempt \in 1 .. MaxAttempts
        BY <1>1 DEF TypeOK, Preconditions
    <2> QED BY <2>1, BuiltIsRequest
<1> HIDE DEF r
<1>3. TypeOK'
    BY <1>1, <1>2 DEF TypeOK, Request
<1>4. Effects' /\ AnswersAreTrue'
    BY <1>1 DEF Effects, AnswersAreTrue
<1>5. (Matches' <=> Matches) /\ (Conditional' <=> Conditional)
    BY <1>1 DEF Matches, Conditional, request
<1>6. Preconditions' /\ StaleStaysStale'
    BY <1>1, <1>2, <1>5 DEF Preconditions, StaleStaysStale, TypeOK, Request
<1>7. ProofIsFinal' /\ DocumentIsProof'
    BY <1>1 DEF ProofIsFinal, DocumentIsProof
<1> QED BY <1>3, <1>4, <1>6, <1>7
------------------------------------------------------------------------------
\* An answer of the service replaces the request it answers.
LEMMA ReplyKeepsCalls ==
    ASSUME Calls, NEW m \in requests, NEW rsp, Reply(m, rsp),
           UNCHANGED <<op, client, rewind, phase, attempt, etag, outcome, stale,
                       revision, recorded, applied, moves>>,
           faults' \in 0 .. MaxFaults,
           phase = "waiting" /\ m.attempt = attempt => IsTrue(rsp)
    PROVE  Calls'
<1> USE ClientAssumption, CallsAssumption DEF Calls
<1>1. /\ requests' = requests \ {m}
      /\ \/ answers' = answers
         \/ /\ answers' = answers \cup {rsp}
            /\ phase = "waiting" /\ m.attempt = attempt
    BY DEF Reply
<1>2. TypeOK' /\ Effects' /\ ProofIsFinal' /\ DocumentIsProof'
    BY <1>1 DEF TypeOK, Effects, ProofIsFinal, DocumentIsProof
<1>3. (Matches' <=> Matches) /\ (Conditional' <=> Conditional)
    BY DEF Matches, Conditional, request
<1>4. Preconditions' /\ StaleStaysStale'
    BY <1>1, <1>3 DEF Preconditions, StaleStaysStale
<1>5. \A a \in answers' : IsTrue(a)
    BY <1>1 DEF AnswersAreTrue
<1>6. \A a \in answers' : IsTrue(a)'
    BY <1>3, <1>5 DEF IsTrue
<1>7. AnswersAreTrue'
    BY <1>1, <1>6 DEF AnswersAreTrue
<1> QED BY <1>2, <1>4, <1>7

\* A problem of any status but one says nothing that could be wrong.
LEMMA ProblemIsTrue ==
    ASSUME NEW status, status # 412 PROVE IsTrue(Problem(status))
BY ClientAssumption DEF IsTrue, Problem

\* Only a request whose precondition is stale is told so.
LEMMA RejectKeepsCalls == ASSUME Calls, NEW m \in requests, Reject(m) PROVE Calls'
<1>1. UNCHANGED <<op, client, rewind, phase, attempt, etag, outcome, stale,
                  revision, recorded, applied, moves, faults>>
    BY DEF Reject, call, caller, service
<1>2. PICK status : /\ Reply(m, Problem(status))
                    /\ status = 400 \/ (Precondition(m) = status /\ status # Missing)
    BY DEF Reject
<1>3. phase = "waiting" /\ m.attempt = attempt => IsTrue(Problem(status))
    <2>1. CASE status # 412
        BY <2>1, ProblemIsTrue
    <2>2. CASE status = 412
        <3>1. Conditional /\ m.headers.match # Missing /\ m.headers.match # revision
            BY <1>2, <2>2, ClientAssumption DEF Precondition
        <3>2. phase = "waiting" /\ m.attempt = attempt
              => Matches /\ etag = m.headers.match /\ etag \in Nat /\ etag < revision
            BY <3>1 DEF Calls, Preconditions, TypeOK
        <3>3. Problem(status).status = 412 /\ Problem(status).digest # 1
            BY <2>2, ClientAssumption DEF Problem
        <3> QED BY <3>1, <3>2, <3>3 DEF IsTrue
    <2> QED BY <2>1, <2>2
<1>4. faults' \in 0 .. MaxFaults
    BY <1>1 DEF Calls, TypeOK
<1> QED BY <1>1, <1>2, <1>3, <1>4, ReplyKeepsCalls

\* The service's own refusals and breakdowns.
LEMMA RefuseKeepsCalls ==
    ASSUME Calls, NEW m \in requests, Refuse(m) \/ Break(m) PROVE Calls'
<1>1. UNCHANGED <<op, client, rewind, phase, attempt, etag, outcome, stale,
                  revision, recorded, applied, moves>>
    BY DEF Refuse, Break, call, caller, service
<1>2. PICK status : Reply(m, Problem(status)) /\ status # 412
    BY DEF Refuse, Break, Refusals
<1>3. faults' \in 0 .. MaxFaults
    BY CallsAssumption DEF Refuse, Break, Fault, Calls, TypeOK
<1> QED BY <1>1, <1>2, <1>3, ProblemIsTrue, ReplyKeepsCalls

\* What is recorded is not a stale precondition.
LEMMA RecordedStatus ==
    ASSUME Calls, NEW m, NEW replayed
    PROVE  /\ Recorded(m, replayed).status # 412
           /\ Recorded(m, replayed).replayed = replayed
<1>1. answer.success \in {200, 201, 204, Missing}
    BY TablesAreSound DEF Sound, answer, Calls, TypeOK
<1> QED BY <1>1, ClientAssumption DEF Recorded

\* A recorded outcome is answered again, marked as such.
LEMMA ReplayKeepsCalls == ASSUME Calls, NEW m \in requests, Replay(m) PROVE Calls'
<1>1. /\ UNCHANGED <<op, client, rewind, phase, attempt, etag, outcome, stale,
                     revision, recorded, applied, moves, faults>>
      /\ Reply(m, Recorded(m, "true"))
      /\ recorded # {}
    BY DEF Replay, call, caller, service, Known
<1>2. IsTrue(Recorded(m, "true"))
    BY <1>1, RecordedStatus DEF IsTrue, Calls, Effects
<1>3. faults' \in 0 .. MaxFaults
    BY <1>1 DEF Calls, TypeOK
<1> QED BY <1>1, <1>2, <1>3, ReplyKeepsCalls

\* A read changes nothing.
LEMMA ReadKeepsCalls == ASSUME Calls, NEW m \in requests, Read(m) PROVE Calls'
<1>1. /\ UNCHANGED <<op, client, rewind, phase, attempt, etag, outcome, stale,
                     revision, recorded, applied, moves, faults>>
      /\ Reply(m, Recorded(m, Missing))
      /\ op \notin Commands
    BY DEF Read, call, caller, service
<1>2. IsTrue(Recorded(m, Missing))
    BY <1>1, RecordedStatus DEF IsTrue
<1>3. faults' \in 0 .. MaxFaults
    BY <1>1 DEF Calls, TypeOK
<1> QED BY <1>1, <1>2, <1>3, ReplyKeepsCalls
\* A command is applied when nothing is recorded, and then its key is.
LEMMA ApplyKeepsCalls == ASSUME Calls, NEW m \in requests, Apply(m) PROVE Calls'
<1> USE ClientAssumption, CallsAssumption DEF Calls
<1>1. /\ UNCHANGED <<op, client, rewind, phase, attempt, etag, outcome, stale,
                     moves, faults>>
      /\ op \in Commands
      /\ m.headers.key # Missing /\ m.headers.key \notin recorded
      /\ recorded' = recorded \cup {m.headers.key}
      /\ applied' = Append(applied, m.attempt)
      /\ revision' = revision + 1
      /\ requests' = requests \ {m}
      /\ \/ answers' = answers
         \/ /\ answers' = answers \cup {Recorded(m, "false")}
            /\ phase = "waiting" /\ m.attempt = attempt
    BY DEF Apply, Reply, Admissible, Known, call, caller
<1>2. m.headers.key = 1 /\ recorded = {} /\ applied = <<>> /\ m.attempt \in 1 .. MaxAttempts
    BY <1>1 DEF TypeOK, Effects, Request
<1>3. recorded' = {1} /\ applied' = <<m.attempt>>
    BY <1>1, <1>2
<1>4. TypeOK' /\ Effects'
    BY <1>1, <1>2, <1>3 DEF TypeOK, Effects
<1>5. (Matches' <=> Matches) /\ (Conditional' <=> Conditional)
    BY <1>1 DEF Matches, Conditional, request
<1>6. Preconditions' /\ StaleStaysStale'
    BY <1>1, <1>5 DEF Preconditions, StaleStaysStale, TypeOK
<1>7. ProofIsFinal' /\ DocumentIsProof'
    BY <1>1, <1>2 DEF ProofIsFinal, DocumentIsProof
<1>8. \A a \in answers' : IsTrue(a)'
    <2> TAKE a \in answers'
    <2>1. CASE a \in answers
        <3>1. IsTrue(a)
            BY <2>1 DEF AnswersAreTrue
        <3>2. Matches => etag \in Nat
            BY <2>1 DEF AnswersAreTrue, Preconditions
        <3> QED BY <3>1, <1>1, <1>2, <1>5 DEF IsTrue, Preconditions, TypeOK
    <2>2. CASE a = Recorded(m, "false") /\ m.attempt = attempt
        BY <2>2, <1>1, <1>3, RecordedStatus DEF IsTrue
    <2> QED BY <1>1, <2>1, <2>2
<1>9. AnswersAreTrue'
    BY <1>1, <1>8 DEF AnswersAreTrue
<1> QED BY <1>4, <1>6, <1>7, <1>9

------------------------------------------------------------------------------
\* What Parse makes of an answer is nothing the answer does not say.
LEMMA ParseIsFaithful ==
    ASSUME TypeOK, NEW rsp, NEW o, o = Parse(answer, rsp)
    PROVE  /\ o.kind = "problem" /\ o.status = 412 => rsp.status = 412
           /\ o.kind = "document" /\ o.digest = 1 =>
                 /\ rsp.digest = 1
                 /\ o.replayed # "true" => rsp.replayed # "true"
<1> USE ClientAssumption
<1>1. Marked(answer.headers)
    BY TablesAreSound DEF Sound, answer, TypeOK
<1>2. \/ o = Failed
      \/ o = Outcome("document", answer, rsp)
      \/ o = Outcome("problem", answer, rsp)
      \/ o = Outcome("bytes", answer, rsp)
    BY DEF Parse
<1>3. CASE o = Failed
    BY <1>3 DEF Failed
<1>4. CASE o # Failed
    <2>1. o.status = rsp.status
        BY <1>2, <1>4 DEF Outcome
    <2>2. /\ o.digest = Decoded(answer, rsp, "X-AnvilKit-Request-Digest", rsp.digest)
          /\ o.replayed = Decoded(answer, rsp, "Idempotency-Replayed", rsp.replayed)
        BY <1>2, <1>4 DEF Outcome
    <2> QED BY <2>1, <2>2, <1>1 DEF Decoded, Marked
<1> QED BY <1>3, <1>4

\* The caller learns from an answer what was true when it was given, and still is.
LEMMA ReceiveKeepsCalls == ASSUME Calls, NEW rsp, Receive(rsp) PROVE Calls'
<1> USE ClientAssumption, CallsAssumption DEF Calls
<1> DEFINE o == Parse(answer, rsp)
<1> DEFINE told == o.kind = "problem" /\ o.status = 412
<1>1. /\ phase = "waiting" /\ rsp \in answers /\ answers' = {} /\ outcome' = o
      /\ phase' = IF Final(o) \/ Believed(o) THEN "done" ELSE "ready"
      /\ etag' = IF told THEN Missing ELSE etag
      /\ stale' = IF told THEN attempt ELSE stale
      /\ UNCHANGED <<op, client, rewind, attempt, requests, revision, recorded,
                     applied, faults, moves>>
    BY DEF Receive, call, service
<1>2. IsTrue(rsp) /\ etag \in Nat \cup {Missing}
    BY <1>1 DEF AnswersAreTrue, TypeOK
<1>3. /\ told => rsp.status = 412
      /\ o.kind = "document" /\ o.digest = 1 =>
            /\ rsp.digest = 1
            /\ o.replayed # "true" => rsp.replayed # "true"
    BY ParseIsFaithful
<1>4. o.kind = "document" /\ o.digest = 1 => Believed(o)
    BY DEF Believed
<1> HIDE DEF o
<1>5. /\ phase' \in {"ready", "done"} /\ (Believed(o) => phase' = "done")
    BY <1>1
<1>6. told => Matches /\ Conditional /\ etag < revision /\ etag \in Nat
    BY <1>1, <1>2, <1>3 DEF IsTrue, Preconditions
<1> HIDE DEF told
<1>7. TypeOK' /\ Effects'
    BY <1>1, <1>5 DEF TypeOK, Effects
<1>8. (Matches' <=> Matches) /\ (Conditional' <=> Conditional)
    BY <1>1 DEF Matches, Conditional, request
<1>9. Preconditions'
    BY <1>1, <1>2, <1>5, <1>6, <1>8 DEF Preconditions, TypeOK
<1>10. StaleStaysStale'
    BY <1>1, <1>6, <1>8 DEF StaleStaysStale, Preconditions, TypeOK
<1>11. AnswersAreTrue'
    BY <1>1 DEF AnswersAreTrue
<1>12. ProofIsFinal' /\ DocumentIsProof'
    BY <1>1, <1>2, <1>3, <1>4, <1>5 DEF ProofIsFinal, DocumentIsProof, IsTrue
<1> QED BY <1>7, <1>9, <1>10, <1>11, <1>12

------------------------------------------------------------------------------
\* Giving up and reading again: what is in transit stays as stale as it was.
LEMMA CallerKeepsCalls == ASSUME Calls, GiveUp \/ Refresh PROVE Calls'
<1> USE ClientAssumption, CallsAssumption DEF Calls
<1>1. (Matches' <=> Matches) /\ (Conditional' <=> Conditional)
    BY DEF Matches, Conditional, request, GiveUp, Refresh, call
<1>2. CASE GiveUp
    <2>1. /\ phase = "waiting" /\ phase' = "ready" /\ outcome' = Failed /\ answers' = {}
          /\ UNCHANGED <<op, client, rewind, attempt, etag, stale, requests,
                         revision, recorded, applied, moves>>
          /\ faults' \in 0 .. MaxFaults
        BY <1>2 DEF GiveUp, Fault, call, service, TypeOK
    <2>2. TypeOK' /\ Effects' /\ AnswersAreTrue'
        BY <2>1 DEF TypeOK, Effects, AnswersAreTrue
    <2>3. Preconditions' /\ StaleStaysStale'
        BY <2>1, <1>1 DEF Preconditions, StaleStaysStale
    <2>4. ProofIsFinal' /\ DocumentIsProof'
        BY <2>1 DEF ProofIsFinal, DocumentIsProof, Failed
    <2> QED BY <2>2, <2>3, <2>4
<1>3. CASE Refresh
    <2>1. /\ phase = "ready" /\ etag = Missing /\ etag' = revision
          /\ UNCHANGED <<op, client, rewind, phase, attempt, outcome, stale, requests,
                         answers, revision, recorded, applied, faults, moves>>
        BY <1>3 DEF Refresh, call, service, network
    <2>2. TypeOK' /\ Effects' /\ AnswersAreTrue'
        BY <2>1 DEF TypeOK, Effects, AnswersAreTrue
    <2>3. Preconditions' /\ StaleStaysStale'
        BY <2>1, <1>1 DEF Preconditions, StaleStaysStale, TypeOK
    <2>4. ProofIsFinal' /\ DocumentIsProof'
        BY <2>1 DEF ProofIsFinal, DocumentIsProof
    <2> QED BY <2>2, <2>3, <2>4
<1> QED BY <1>2, <1>3

\* Somebody else makes requests stale, never current again.
LEMMA MoveKeepsCalls == ASSUME Calls, Move PROVE Calls'
<1> USE ClientAssumption, CallsAssumption DEF Calls
<1>1. /\ moves < MaxMoves /\ moves' = moves + 1 /\ revision' = revision + 1
      /\ UNCHANGED <<op, client, rewind, phase, attempt, etag, outcome, stale, requests,
                     answers, recorded, applied, faults>>
    BY DEF Move, call, caller, network
<1>2. (Matches' <=> Matches) /\ (Conditional' <=> Conditional)
    BY <1>1 DEF Matches, Conditional, request
<1>3. TypeOK' /\ Effects' /\ ProofIsFinal' /\ DocumentIsProof'
    BY <1>1 DEF TypeOK, Effects, ProofIsFinal, DocumentIsProof
<1>4. Preconditions' /\ StaleStaysStale'
    BY <1>1, <1>2 DEF Preconditions, StaleStaysStale, TypeOK
<1>5. \A a \in answers' : IsTrue(a)'
    BY <1>1, <1>2 DEF AnswersAreTrue, IsTrue, Preconditions, TypeOK
<1>6. AnswersAreTrue'
    BY <1>1, <1>5 DEF AnswersAreTrue
<1> QED BY <1>3, <1>4, <1>6

\* What a proxy answers states no digest, and not that anything is stale.
LEMMA ForeignIsTrue == ASSUME Calls, NEW rsp \in Foreign PROVE IsTrue(rsp)
<1> USE ClientAssumption
<1>1. answer.success \in {200, 201, 204, Missing}
    BY TablesAreSound DEF Sound, answer, Calls, TypeOK
<1>2. PICK status \in {answer.success, 502} \ {Missing}, page \in Pages :
          rsp = Page(status, page)
    BY DEF Foreign
<1>3. rsp.status = status /\ rsp.digest = Missing
    BY <1>2 DEF Page, Problem
<1>4. status # 412
    BY <1>1
<1> QED BY <1>3, <1>4 DEF IsTrue

\* The network takes away, and answers in the service's place.
LEMMA NetworkKeepsCalls == ASSUME Calls, Lose \/ Intercept PROVE Calls'
<1> USE ClientAssumption, CallsAssumption DEF Calls
<1>1. /\ UNCHANGED <<op, client, rewind, phase, attempt, etag, outcome, stale,
                     revision, recorded, applied, moves>>
      /\ faults' \in 0 .. MaxFaults
      /\ requests' \subseteq requests
      /\ \/ answers' \subseteq answers
         \/ phase = "waiting" /\ \E rsp \in Foreign : answers' = {rsp}
    BY DEF Lose, Intercept, Fault, call, caller, service, TypeOK
<1>2. (Matches' <=> Matches) /\ (Conditional' <=> Conditional)
    BY <1>1 DEF Matches, Conditional, request
<1>3. TypeOK' /\ Effects' /\ ProofIsFinal' /\ DocumentIsProof'
    BY <1>1 DEF TypeOK, Effects, ProofIsFinal, DocumentIsProof
<1>4. Preconditions' /\ StaleStaysStale'
    BY <1>1, <1>2 DEF Preconditions, StaleStaysStale
<1>5. \A a \in answers' : IsTrue(a)
    BY <1>1, ForeignIsTrue DEF AnswersAreTrue
<1>6. \A a \in answers' : IsTrue(a)'
    BY <1>1, <1>2, <1>5 DEF IsTrue
<1>7. AnswersAreTrue'
    BY <1>1, <1>6 DEF AnswersAreTrue
<1> QED BY <1>3, <1>4, <1>7

------------------------------------------------------------------------------
\* The invariant survives every step, and one that changes nothing.
LEMMA NextKeepsCalls == Calls /\ [Next]_vars => Calls'
<1> SUFFICES ASSUME Calls, [Next]_vars PROVE Calls'
    OBVIOUS
<1>1. CASE Send \/ Resend
    BY <1>1, SendKeepsCalls, ResendKeepsCalls
<1>2. CASE GiveUp \/ Refresh
    BY <1>2, CallerKeepsCalls
<1>3. CASE \E rsp \in answers : Receive(rsp)
    BY <1>3, ReceiveKeepsCalls
<1>4. CASE \E m \in requests : Reject(m)
    BY <1>4, RejectKeepsCalls
<1>5. CASE \E m \in requests : Refuse(m) \/ Break(m)
    BY <1>5, RefuseKeepsCalls
<1>6. CASE \E m \in requests : Replay(m) \/ Read(m)
    BY <1>6, ReplayKeepsCalls, ReadKeepsCalls
<1>7. CASE \E m \in requests : Apply(m)
    BY <1>7, ApplyKeepsCalls
<1>8. CASE Move
    BY <1>8, MoveKeepsCalls
<1>9. CASE Lose \/ Intercept
    BY <1>9, NetworkKeepsCalls
<1>10. CASE UNCHANGED vars
    <2>1. /\ (Matches' <=> Matches) /\ (Conditional' <=> Conditional)
          /\ UNCHANGED <<op, client, rewind, phase, attempt, etag, outcome, stale, requests,
                         answers, revision, recorded, applied, faults, moves>>
        BY <1>10 DEF vars, call, caller, network, service, Matches, Conditional, request
    <2>2. \A a \in answers' : IsTrue(a)'
        BY <2>1 DEF Calls, AnswersAreTrue, IsTrue
    <2> QED
        BY <2>1, <2>2 DEF Calls, TypeOK, Effects, Preconditions, StaleStaysStale,
                          AnswersAreTrue, ProofIsFinal, DocumentIsProof
<1> QED BY <1>1, <1>2, <1>3, <1>4, <1>5, <1>6, <1>7, <1>8, <1>9, <1>10 DEF Next

\* The invariant holds throughout.
LEMMA SpecCalls == Spec => []Calls
<1>1. Init => Calls
    BY InitCalls
<1>2. Calls /\ [Next]_vars => Calls'
    BY NextKeepsCalls
<1> QED BY <1>1, <1>2, PTL DEF Spec

\* A command takes effect at most once, however often the caller and the
\* transport send it, whatever is lost and however long it takes.
THEOREM CommandsApplyOnce == Spec => []AppliedOnce
<1>1. Calls => AppliedOnce
    BY DEF Calls, TypeOK, Effects, AppliedOnce
<1> QED BY <1>1, SpecCalls, PTL

\* For each of the twenty-nine operations, a document that states the digest of
\* the command is proof that it took effect, and when it is not marked as a
\* replay, with this attempt.
THEOREM DocumentsAreProof == Spec => []DocumentIsProof
<1>1. Calls => DocumentIsProof
    BY DEF Calls
<1> QED BY <1>1, SpecCalls, PTL

\* No copy of what was sent until a stale answer takes effect after it.
THEOREM StaleAnswersAreFinal == Spec => StaleIsFinal
<1>1. Calls /\ [Next]_vars => [applied' # applied => applied'[Len(applied')] > stale]_vars
    <2> SUFFICES ASSUME Calls, Next, applied' # applied
                 PROVE  applied'[Len(applied')] > stale
        OBVIOUS
    <2>1. PICK m \in requests : Apply(m)
        BY DEF Next, Send, GiveUp, Refresh, Receive, Reject, Refuse, Break, Replay, Read,
               Move, Lose, Resend, Intercept, service
    <2>2. /\ applied' = Append(applied, m.attempt) /\ m.attempt \in 1 .. MaxAttempts
          /\ applied \in Seq(1 .. MaxAttempts)
        BY <2>1 DEF Apply, Calls, TypeOK, Request
    <2>3. ~(m.attempt <= stale)
        <3>1. Conditional => m.headers.match = revision
            BY <2>1, ClientAssumption DEF Apply, Precondition
        <3> QED BY <3>1 DEF Calls, TypeOK, StaleStaysStale
    <2>4. applied'[Len(applied')] = m.attempt
        BY <2>2
    <2> QED BY <2>2, <2>3, <2>4 DEF Calls, TypeOK
<1> QED BY <1>1, SpecCalls, PTL DEF Spec, StaleIsFinal

------------------------------------------------------------------------------
(* What the service answers has a meaning.  The invariant says so of every   *)
(* answer on its way and is inductive as it stands, the operation being what *)
(* it is: the work is in the tables, which decode every problem that a       *)
(* request can meet.                                                         *)

Understood(rsp) ==
    rsp.content \in {"ProblemDetails", answer.document} =>
        Parse(answer, rsp).kind \in {"document", "problem"}

Meanings == /\ op \in DOMAIN Operations
            /\ \A rsp \in answers : Understood(rsp)

\* The first two segments of a path.
LEMMA FirstTwo ==
    ASSUME NEW path, NEW first, SubSeq(path, 1, 2) = first
    PROVE  path[1] = first[1] /\ path[2] = first[2]
<1>1. SubSeq(path, 1, 2)[1] = path[1] /\ SubSeq(path, 1, 2)[2] = path[2]
    BY SMT
<1> QED BY <1>1

\* A request meets no problem that its operation does not decode.
LEMMA ProblemsAreDecoded ==
    ASSUME Meanings
    PROVE  /\ ReadProblems \subseteq answer.problems
           /\ Refusals \subseteq answer.problems
           /\ op \in Commands => 400 \in answer.problems
           /\ Conditional => {412, 428} \subseteq answer.problems
<1>1. Sound(Operations[op])
    BY TablesAreSound DEF Meanings
<1>2. ReadProblems \subseteq answer.problems
    BY <1>1 DEF Sound, answer
<1>3. op \in Commands => SoundCommand(Operations[op])
    BY <1>1 DEF Sound, Commands
<1>4. op \in Commands => {400, 409} \subseteq answer.problems
    BY <1>3 DEF SoundCommand, answer
<1>5. request.body => 422 \in answer.problems
    <2>1. CASE op \in Commands
        BY <1>3, <2>1 DEF SoundCommand, answer, request
    <2>2. CASE op \notin Commands
        BY <1>1, <2>2 DEF Sound, request, Commands, Meanings
    <2> QED BY <2>1, <2>2
<1>6. Conditional => {412, 428} \subseteq answer.problems
    <2>1. Conditional => op \in Commands /\ OnResource(request.path)
        BY ONLY DEF Conditional, OnResource, Resource
    <2> QED BY <1>3, <2>1 DEF SoundCommand, answer, request
<1>7. Expiring => 410 \in answer.problems
    <2> DEFINE runtime == SubSeq(request.path, 1, 2) = <<"internal", "runtime">>
    <2>1. runtime => OfRuntime(request.path)
        <3>1. /\ <<"internal", "runtime">>[1] = "internal"
              /\ <<"internal", "runtime">>[2] = "runtime"
            OBVIOUS
        <3>2. runtime => request.path[1] = "internal" /\ request.path[2] = "runtime"
            BY ONLY <3>1, FirstTwo, Zenon
        <3> HIDE DEF runtime
        <3> QED BY <3>2 DEF OfRuntime
    <2>2. CASE op \in Commands
        <3>1. Expiring => request.path[1] = "task" \/ runtime \/ op = "StreamAgentRunEvents"
            BY ONLY Zenon DEF Expiring
        <3> HIDE DEF runtime
        <3>2. Expiring => OfRuntime(request.path) \/ op = "StreamAgentRunEvents"
            BY <2>1, <3>1 DEF OfRuntime
        <3> QED BY <1>3, <2>2, <3>2, StreamMayExpire DEF SoundCommand, answer, request
    <2>3. CASE op \notin Commands
        BY <2>3, StreamMayExpire DEF Expiring, answer
    <2> QED BY <2>2, <2>3
<1> QED BY <1>2, <1>4, <1>5, <1>6, <1>7 DEF Refusals, ReadProblems

\* A problem that is decoded is one for the caller.
LEMMA ProblemIsUnderstood ==
    ASSUME Meanings, NEW status \in answer.problems, status \in Nat \ {200, 201, 204}
    PROVE  Understood(Problem(status))
<1> DEFINE rsp == Problem(status)
<1>1. /\ rsp.status = status /\ rsp.json = TRUE /\ rsp.size = 1
      /\ rsp.content = "ProblemDetails"
    BY DEF Problem
<1> HIDE DEF rsp
<1>2. answer.success \in {200, 201, 204, Missing}
    BY TablesAreSound DEF Sound, answer, Meanings
<1>3. ReadBoundedResponseBody(rsp.size)
    BY <1>1, ClientAssumption DEF ReadBoundedResponseBody
<1>4. ~Documented(answer, rsp)
    BY <1>1, <1>2, ClientAssumption DEF Documented
<1>5. Refused(answer, rsp)
    BY <1>1 DEF Refused
<1>6. Parse(answer, rsp) = Outcome("problem", answer, rsp)
    BY <1>1, <1>3, <1>4, <1>5 DEF Parse, DecodeStrictResponseJSON
<1>7. Parse(answer, rsp).kind = "problem"
    BY <1>6 DEF Outcome
<1> QED BY <1>7 DEF Understood, rsp

\* The document of an operation is read as such.
LEMMA RecordedIsUnderstood ==
    ASSUME Meanings, NEW m, NEW replayed PROVE Understood(Recorded(m, replayed))
<1> DEFINE rsp == Recorded(m, replayed)
<1>1. /\ rsp.status = IF answer.success = Missing THEN 200 ELSE answer.success
      /\ answer.document # Missing => rsp.json
      /\ rsp.content = IF answer.document = Missing THEN "text" ELSE answer.document
      /\ rsp.size = MaximumResponseBody
    BY DEF Recorded
<1> HIDE DEF rsp
<1>2. /\ answer.success = Missing => answer.document = Missing
      /\ answer.document \notin NoDocuments
      /\ answer.success \notin answer.problems
    BY TablesAreSound DEF Sound, answer, Meanings
<1>3. CASE answer.document = Missing
    BY <1>1, <1>2, <1>3 DEF Understood, NoDocuments, rsp
<1>4. CASE answer.document # Missing
    <2>1. ReadBoundedResponseBody(rsp.size) /\ Documented(answer, rsp)
        BY <1>1, <1>2, <1>4, ClientAssumption DEF ReadBoundedResponseBody, Documented
    <2>2. DecodeStrictResponseJSON(rsp.content, answer.document)
        BY <1>1, <1>4 DEF DecodeStrictResponseJSON
    <2>3. Parse(answer, rsp) = Outcome("document", answer, rsp)
        <3>1. ~Refused(answer, rsp)
            BY <1>2, <2>1 DEF Documented, Refused
        <3> QED BY <2>1, <2>2, <3>1 DEF Parse
    <2>4. Parse(answer, rsp).kind = "document"
        BY <2>3 DEF Outcome
    <2> QED BY <2>4 DEF Understood, rsp
<1> QED BY <1>3, <1>4

\* A proxy's page is neither a document of the operation nor a problem.
LEMMA ForeignIsNone ==
    ASSUME Meanings, NEW rsp \in Foreign PROVE Understood(rsp)
<1>1. rsp.content \in {"empty", "other", "text"}
    <2>1. PICK status \in {answer.success, 502} \ {Missing}, page \in Pages :
              rsp = Page(status, page)
        BY DEF Foreign
    <2>2. rsp.content = page[2]
        BY <2>1 DEF Page, Problem
    <2>3. /\ <<TRUE, "empty", 1>>[2] = "empty" /\ <<TRUE, "other", 1>>[2] = "other"
          /\ <<FALSE, "text", 1>>[2] = "text"
          /\ <<TRUE, "empty", MaximumResponseBody + 1>>[2] = "empty"
        OBVIOUS
    <2>4. page[2] \in {"empty", "other", "text"}
        BY <2>3, Zenon DEF Pages
    <2> QED BY <2>2, <2>4
<1>2. answer.document \notin NoDocuments
    BY TablesAreSound DEF Sound, answer, Meanings
<1> QED BY <1>1, <1>2 DEF Understood, NoDocuments

\* The answer to a request joins those on their way.
LEMMA ReplyKeepsMeanings ==
    ASSUME Meanings, NEW m, NEW rsp, Reply(m, rsp), UNCHANGED op, Understood(rsp)
    PROVE  Meanings'
<1>1. answer' = answer
    BY DEF answer
<1>2. \A a \in answers' : Understood(a)
    BY DEF Reply, Meanings
<1>3. \A a \in answers' : Understood(a)'
    BY <1>1, <1>2 DEF Understood
<1> QED BY <1>3 DEF Meanings

\* No step puts an answer on its way that the caller cannot understand.
LEMMA NextKeepsMeanings == Meanings /\ [Next]_vars => Meanings'
<1> SUFFICES ASSUME Meanings, [Next]_vars PROVE Meanings'
    OBVIOUS
<1>1. CASE answers' \subseteq answers \cup Foreign /\ UNCHANGED op
    <2>1. answer' = answer
        BY <1>1 DEF answer
    <2>2. \A a \in answers' : Understood(a)
        BY <1>1, ForeignIsNone DEF Meanings
    <2>3. \A a \in answers' : Understood(a)'
        BY <2>1, <2>2 DEF Understood
    <2> QED BY <1>1, <2>3 DEF Meanings
<1>2. CASE Send \/ GiveUp \/ Refresh \/ (\E rsp \in answers : Receive(rsp))
    BY <1>1, <1>2 DEF Send, GiveUp, Refresh, Receive, call, network
<1>3. CASE Move \/ Lose \/ Resend \/ Intercept \/ UNCHANGED vars
    BY <1>1, <1>3 DEF Move, Lose, Resend, Intercept, vars, call, network
<1>4. ASSUME NEW m \in requests, Reject(m) PROVE Meanings'
    <2>1. UNCHANGED op
        BY <1>4 DEF Reject, call
    <2>2. \/ op \in Commands /\ Reply(m, Problem(400))
          \/ /\ Conditional /\ Precondition(m) \in {412, 428}
             /\ Reply(m, Problem(Precondition(m)))
        BY <1>4 DEF Reject, Admissible, Precondition
    <2>3. Understood(Problem(400)) \/ op \notin Commands
        BY ProblemsAreDecoded, ProblemIsUnderstood
    <2>4. (\A status \in {412, 428} : Understood(Problem(status))) \/ ~Conditional
        BY ProblemsAreDecoded, ProblemIsUnderstood
    <2> QED BY <2>1, <2>2, <2>3, <2>4, ReplyKeepsMeanings
<1>5. ASSUME NEW m \in requests, Refuse(m) \/ Break(m) PROVE Meanings'
    <2>1. UNCHANGED op
        BY <1>5 DEF Refuse, Break, call
    <2>2. PICK status \in Refusals \cup ReadProblems : Reply(m, Problem(status))
        BY <1>5 DEF Refuse, Break, ReadProblems
    <2>3. status \in answer.problems /\ status \in Nat \ {200, 201, 204}
        BY ProblemsAreDecoded DEF Refusals, ReadProblems
    <2> QED BY <2>1, <2>2, <2>3, ProblemIsUnderstood, ReplyKeepsMeanings
<1>6. ASSUME NEW m \in requests, Replay(m) \/ Apply(m) \/ Read(m) PROVE Meanings'
    <2>1. UNCHANGED op
        BY <1>6 DEF Replay, Apply, Read, call
    <2>2. PICK replayed \in {"true", "false", Missing} : Reply(m, Recorded(m, replayed))
        BY <1>6 DEF Replay, Apply, Read
    <2> QED BY <2>1, <2>2, RecordedIsUnderstood, ReplyKeepsMeanings
<1> QED BY <1>2, <1>3, <1>4, <1>5, <1>6 DEF Next

\* Whatever a service, network and proxy that keep to the contract answer, the
\* client of each of the twenty-nine operations makes a document or a problem of
\* what the service said: no problem that a request can meet is left undecoded
\* (the switches of the Parse...Response functions).
THEOREM ServiceIsUnderstoodTheorem == Spec => []ServiceIsUnderstood
<1>1. Init => Meanings
    BY DEF Init, Meanings
<1>2. Meanings /\ [Next]_vars => Meanings'
    BY NextKeepsMeanings
<1>3. Meanings => ServiceIsUnderstood
    BY DEF Meanings, Understood, ServiceIsUnderstood
<1> QED BY <1>1, <1>2, <1>3, PTL DEF Spec
==============================================================================
