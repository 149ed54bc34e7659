----------------------------- MODULE AgentClient -----------------------------
(*****************************************************************************)
(* The fifteen operations of packages/contracts-go/generated/agentclient:    *)
(* for each the request it builds (New...Request, in both spellings where    *)
(* there is a body), what it decodes of the answer (Parse...Response) and    *)
(* the two together, which is what a caller calls.  Optional parameters      *)
(* (limit, cursor and Last-Event-ID) are left out.                           *)
(*****************************************************************************)
EXTENDS ContractClient

NewListAgentRunsRequest ==
    Get(<<"workspaces", "{workspaceId}", "agent-runs">>,
        ReadHeaders)
ParseListAgentRunsResponse ==
    Decodes(200, "AgentRunPage", ReadProblems, {})
ListAgentRuns == Call(NewListAgentRunsRequest, ParseListAgentRunsResponse)

NewCreateAgentRunRequest ==
    Post(<<"workspaces", "{workspaceId}", "agent-runs">>,
         CommandHeaders)
ParseCreateAgentRunResponse ==
    Decodes(201, "AgentRun", CommandProblems, RevisionHeaders \cup {"Location"})
CreateAgentRun == Call(NewCreateAgentRunRequest, ParseCreateAgentRunResponse)

NewGetAgentRunRequest ==
    Get(<<"workspaces", "{workspaceId}", "agent-runs", "{runId}">>,
        ReadHeaders)
BugRevisionUnread == Decodes(200, "AgentRun", ReadProblems, {})

ParseGetAgentRunResponse ==
    Decodes(200, "AgentRun", ReadProblems, {"ETag"})
GetAgentRun == Call(NewGetAgentRunRequest, ParseGetAgentRunResponse)

NewIssueApplyAuthorizationRequest ==
    Post(<<"workspaces", "{workspaceId}", "agent-runs", "{runId}",
           "apply-authorizations">>,
         ConditionalHeaders)
ParseIssueApplyAuthorizationResponse ==
    Decodes(201, "IssuedApplyAuthorization", ConditionalProblems,
            RevisionHeaders)
IssueApplyAuthorization ==
    Call(NewIssueApplyAuthorizationRequest, ParseIssueApplyAuthorizationResponse)

NewDecideAgentApprovalRequest ==
    Post(<<"workspaces", "{workspaceId}", "agent-runs", "{runId}", "approvals",
           "{requestId}", "decisions">>,
         ConditionalHeaders)
ParseDecideAgentApprovalResponse ==
    Decodes(200, "AgentRun", ConditionalProblems, RevisionHeaders)
DecideAgentApproval ==
    Call(NewDecideAgentApprovalRequest, ParseDecideAgentApprovalResponse)

NewCancelAgentRunRequest ==
    BodylessPost(<<"workspaces", "{workspaceId}", "agent-runs", "{runId}",
                   "cancel">>,
                 ConditionalHeaders)
BugStaleUnknown ==
    Decodes(200, "AgentRun", CommandProblems \ {422}, RevisionHeaders)

ParseCancelAgentRunResponse ==
    Decodes(200, "AgentRun", ConditionalProblems \ {422}, RevisionHeaders)
CancelAgentRun == Call(NewCancelAgentRunRequest, ParseCancelAgentRunResponse)

NewDiscardAgentRunRequest ==
    BodylessPost(<<"workspaces", "{workspaceId}", "agent-runs", "{runId}",
                   "discard">>,
                 ConditionalHeaders)
ParseDiscardAgentRunResponse ==
    Decodes(200, "AgentRun", ConditionalProblems \ {422}, RevisionHeaders)
DiscardAgentRun ==
    Call(NewDiscardAgentRunRequest, ParseDiscardAgentRunResponse)

NewResolveAgentDomainOperationRequest ==
    Post(<<"workspaces", "{workspaceId}", "agent-runs", "{runId}",
           "domain-operations", "{operationId}", "resolution">>,
         ConditionalHeaders)
ParseResolveAgentDomainOperationResponse ==
    Decodes(200, "AgentRun", ConditionalProblems, RevisionHeaders)
ResolveAgentDomainOperation ==
    Call(NewResolveAgentDomainOperationRequest, ParseResolveAgentDomainOperationResponse)

NewStreamAgentRunEventsRequest ==
    Get(<<"workspaces", "{workspaceId}", "agent-runs", "{runId}", "events">>,
        ReadHeaders)
ParseStreamAgentRunEventsResponse ==
    Decodes(Missing, Missing, ReadProblems \cup {410}, {"Link"})
StreamAgentRunEvents ==
    Call(NewStreamAgentRunEventsRequest, ParseStreamAgentRunEventsResponse)

NewRespondToAgentInputRequest ==
    Post(<<"workspaces", "{workspaceId}", "agent-runs", "{runId}", "inputs",
           "{requestId}", "responses">>,
         ConditionalHeaders)
ParseRespondToAgentInputResponse ==
    Decodes(200, "AgentRun", ConditionalProblems, RevisionHeaders)
RespondToAgentInput ==
    Call(NewRespondToAgentInputRequest, ParseRespondToAgentInputResponse)

NewRetryAgentRunRequest ==
    BodylessPost(<<"workspaces", "{workspaceId}", "agent-runs", "{runId}",
                   "retry">>,
                 ConditionalHeaders)
ParseRetryAgentRunResponse ==
    Decodes(200, "AgentRun", ConditionalProblems \ {422}, RevisionHeaders)
RetryAgentRun == Call(NewRetryAgentRunRequest, ParseRetryAgentRunResponse)

NewGetAgentRunSnapshotRequest ==
    Get(<<"workspaces", "{workspaceId}", "agent-runs", "{runId}", "snapshot">>,
        ReadHeaders)
ParseGetAgentRunSnapshotResponse ==
    Decodes(200, "AgentRunSnapshot", ReadProblems, {})
GetAgentRunSnapshot ==
    Call(NewGetAgentRunSnapshotRequest, ParseGetAgentRunSnapshotResponse)

NewGetAgentArtifactRequest ==
    Get(<<"workspaces", "{workspaceId}", "artifacts", "{artifactId}">>,
        ReadHeaders \cup {"X-AnvilKit-Access-Purpose"})
ParseGetAgentArtifactResponse ==
    Decodes(200, "AgentArtifact", ReadProblems, {})
GetAgentArtifact ==
    Call(NewGetAgentArtifactRequest, ParseGetAgentArtifactResponse)

NewIssueAgentArtifactContentGrantRequest ==
    Post(<<"workspaces", "{workspaceId}", "artifacts", "{artifactId}",
           "content-grant">>,
         ConditionalHeaders)
ParseIssueAgentArtifactContentGrantResponse ==
    Decodes(201, "ArtifactContentGrant", ConditionalProblems, ReplayHeaders)
IssueAgentArtifactContentGrant ==
    Call(NewIssueAgentArtifactContentGrantRequest, ParseIssueAgentArtifactContentGrantResponse)

NewDecideAgentArtifactCustodyRequest ==
    Post(<<"workspaces", "{workspaceId}", "artifacts", "{artifactId}",
           "custody">>,
         ConditionalHeaders)
ParseDecideAgentArtifactCustodyResponse ==
    Decodes(204, Missing, ConditionalProblems, RevisionHeaders)
DecideAgentArtifactCustody ==
    Call(NewDecideAgentArtifactCustodyRequest, ParseDecideAgentArtifactCustodyResponse)

\* The operations of the interface, by name.
AgentOperations ==
    [ ListAgentRuns                  |-> ListAgentRuns,
      CreateAgentRun                 |-> CreateAgentRun,
      GetAgentRun                    |-> GetAgentRun,
      IssueApplyAuthorization        |-> IssueApplyAuthorization,
      DecideAgentApproval            |-> DecideAgentApproval,
      CancelAgentRun                 |-> CancelAgentRun,
      DiscardAgentRun                |-> DiscardAgentRun,
      ResolveAgentDomainOperation    |-> ResolveAgentDomainOperation,
      StreamAgentRunEvents           |-> StreamAgentRunEvents,
      RespondToAgentInput            |-> RespondToAgentInput,
      RetryAgentRun                  |-> RetryAgentRun,
      GetAgentRunSnapshot            |-> GetAgentRunSnapshot,
      GetAgentArtifact               |-> GetAgentArtifact,
      IssueAgentArtifactContentGrant |-> IssueAgentArtifactContentGrant,
      DecideAgentArtifactCustody     |-> DecideAgentArtifactCustody ]
==============================================================================
