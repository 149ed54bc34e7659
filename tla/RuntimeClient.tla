---------------------------- MODULE RuntimeClient ----------------------------
(*****************************************************************************)
(* The six operations of packages/contracts-go/generated/agentruntimeclient, *)
(* in the form of AgentClient.                                               *)
(*****************************************************************************)
EXTENDS ContractClient

NewIssueRuntimeArtifactContentGrantRequest ==
    Post(<<"internal", "runtime", "artifact-content-grants">>,
         CommandHeaders)
ParseIssueRuntimeArtifactContentGrantResponse ==
    Decodes(201, "ArtifactContentGrant", CommandProblems \cup {410},
            ReplayHeaders)
IssueRuntimeArtifactContentGrant ==
    Call(NewIssueRuntimeArtifactContentGrantRequest, ParseIssueRuntimeArtifactContentGrantResponse)

NewSubmitRuntimeArtifactRequest ==
    Post(<<"internal", "runtime", "artifacts">>,
         CommandHeaders)
ParseSubmitRuntimeArtifactResponse ==
    Decodes(201, "AgentArtifact", CommandProblems \cup {410}, ReplayHeaders)
SubmitRuntimeArtifact ==
    Call(NewSubmitRuntimeArtifactRequest, ParseSubmitRuntimeArtifactResponse)

NewInvokeGovernedContractRuntimeRequest ==
    Post(<<"internal", "runtime", "contract-runtime-invocations">>,
         CommandHeaders)
ParseInvokeGovernedContractRuntimeResponse ==
    Decodes(200, "ContractRuntimeResult", CommandProblems \cup {410},
            ReplayHeaders)
InvokeGovernedContractRuntime ==
    Call(NewInvokeGovernedContractRuntimeRequest, ParseInvokeGovernedContractRuntimeResponse)

NewInvokeGovernedModelRequest ==
    Post(<<"internal", "runtime", "model-invocations">>,
         CommandHeaders)
ParseInvokeGovernedModelResponse ==
    Decodes(200, "ModelInvocationResult", CommandProblems \cup {410},
            ReplayHeaders)
InvokeGovernedModel ==
    Call(NewInvokeGovernedModelRequest, ParseInvokeGovernedModelResponse)

NewDescribeAgentRuntimeReleaseRequest ==
    Get(<<"runtime-release">>,
        ReadHeaders)
ParseDescribeAgentRuntimeReleaseResponse ==
    Decodes(200, "AgentRuntimeManifest", ReadProblems, {})
DescribeAgentRuntimeRelease ==
    Call(NewDescribeAgentRuntimeReleaseRequest, ParseDescribeAgentRuntimeReleaseResponse)

NewDispatchAgentTaskRequest ==
    Post(<<"task">>,
         CommandHeaders)
ParseDispatchAgentTaskResponse ==
    Decodes(200, "AgentRuntimeResult", CommandProblems \cup {410},
            ReplayHeaders)
DispatchAgentTask ==
    Call(NewDispatchAgentTaskRequest, ParseDispatchAgentTaskResponse)

\* The operations of the interface, by name.
RuntimeOperations ==
    [ IssueRuntimeArtifactContentGrant |-> IssueRuntimeArtifactContentGrant,
      SubmitRuntimeArtifact            |-> SubmitRuntimeArtifact,
      InvokeGovernedContractRuntime    |-> InvokeGovernedContractRuntime,
      InvokeGovernedModel              |-> InvokeGovernedModel,
      DescribeAgentRuntimeRelease      |-> DescribeAgentRuntimeRelease,
      DispatchAgentTask                |-> DispatchAgentTask ]
==============================================================================
