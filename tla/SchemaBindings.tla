---------------------------- MODULE SchemaBindings ----------------------------
(*****************************************************************************)
(* The Go bindings of the contract documents                                 *)
(* (packages/contracts-go/generated/schema/contracts.gen.go): what a binding *)
(* accepts as a document of its type, and what it writes when the value is   *)
(* encoded again; next to it what the schema that the binding was generated  *)
(* from says of the same document.                                           *)
(*                                                                           *)
(* A type is a function from its fields to their kinds.  A document holds a  *)
(* value for every field, "absent" included: "good" is one that the schema   *)
(* admits and that reads and writes as itself, the other names say in which  *)
(* way a value is different.  A nested object or item stands for one whose   *)
(* own binding reads and writes it as itself.                                *)
(*****************************************************************************)
EXTENDS Naturals

CONSTANT Refused  \* what there is instead of a value that is not accepted

------------------------------------------------------------------------------
(* The kinds of fields. *)

Kind(sort, floor) == [sort |-> sort, floor |-> floor, optional |-> FALSE]

Text == Kind("text", 1)          \* a pattern, an enumeration or a length is checked
FreeText == Kind("text", 0)      \* the empty string is one as well
Count(low) == Kind("count", low)  \* with a maximum of the schema
Whole(low) == Kind("whole", low)  \* the maximum is the largest safe integer
Flag == Kind("flag", 0)
Fixed == Kind("fixed", 0)        \* a constant of the schema, interface{} in Go
Moment == Kind("moment", 0)      \* SharedPrimitivesTimestamp
Instant == Kind("instant", 0)    \* the same in the schema, time.Time in Go
Object == Kind("object", 0)
Table == Kind("table", 0)        \* SharedPrimitivesBoundedStringMap
Items(low) == Kind("items", low)        \* items that have a binding of their own
Distinct(low) == Kind("distinct", low)  \* the same, uniqueItems in the schema
Strings(low) == Kind("strings", low)    \* items that are plain strings
Optional(kind) == [kind EXCEPT !.optional = TRUE]

Counts == {"count", "whole"}
Times == {"moment", "instant"}
Lists == {"items", "distinct", "strings"}
Collections == Lists \cup {"table"}

\* The values that a field of a kind may have in a document: besides the good
\* one, a missing one, null and anything that is of no use,
\*   text:   the empty string
\*   number: 0, less than the minimum, more than the maximum, more than 2^53,
\*           a whole number with a fraction or an exponent (1.0), and -0
\*   time:   milliseconds that end in 0, any other number of digits than three, a
\*           comma or an hour of one digit, a good one in another spelling (+00:00
\*           or -00:00 for the Z, digits behind the third that do not count), an
\*           offset, the leap second, and the year 1 without a fraction; for a
\*           time.Time also a good one that is written with an escape of JSON
\*   table:  no entry, too many or too long ones, one that is null
\*   list:   no item, too many, one that is null, one twice or of a wrong form
Values(kind) ==
    {"good", "null", "absent", "other"} \cup
    CASE kind.sort = "text" -> {"empty"}
      [] kind.sort = "count" -> {"zero", "below", "above", "unsafe", "fraction", "minusZero"}
      [] kind.sort = "whole" -> {"zero", "below", "unsafe", "fraction", "minusZero"}
      [] kind.sort = "flag" -> {"false"}
      [] kind.sort \in Times ->
             {"whole", "trimmed", "loose", "respelled", "offset", "leap", "yearOne"} \cup
             (IF kind.sort = "instant" THEN {"escaped"} ELSE {})
      [] kind.sort = "table" -> {"empty", "long", "nullItem"}
      [] kind.sort = "items" -> {"empty", "long"}
      [] kind.sort = "distinct" -> {"empty", "long", "twins"}
      [] kind.sort = "strings" -> {"empty", "long", "nullItem", "badItem"}
      [] OTHER -> {}

\* What a binding may have read: a value, or nil.
Readings == {"good", "other", "empty", "zero", "false", "whole", "trimmed", "offset",
             "yearOne", "twins", "badItem", "nil"}

ASSUME RefusedAssumption == Refused \notin Readings

------------------------------------------------------------------------------
(* The document types: every field in the order of its name. *)

AgentArtifact ==
    [artifactId |-> Text, contractType |-> Fixed, createdAt |-> Moment,
     digest |-> Text, kind |-> Text, lifecycle |-> Text, lineage |-> Items(0),
     producer |-> Object, reference |-> Object, schema |-> Object,
     validation |-> Object]
AgentArtifactReference ==
    [bucket |-> Text, mediaType |-> Text, objectKey |-> Text,
     sizeBytes |-> Count(0)]
AgentBudget ==
    [currencyLimits |-> Object, exceedBehavior |-> Text, gpuLimits |-> Object,
     kind |-> Fixed, modelLimits |-> Object, policy |-> Object,
     reservationId |-> Text, tokenLimits |-> Object, workerLimits |-> Object]
AgentDefinition ==
    [allowedDelegates |-> Distinct(0), definitionDigest |-> Text,
     definitionId |-> Text, domain |-> Text, evaluators |-> Items(0),
     guardrailPolicy |-> Object, inputSchema |-> Object, kind |-> Fixed,
     maximumDelegationDepth |-> Count(0), maximumFanOut |-> Count(0),
     memoryPolicy |-> Object, modelPolicy |-> Object, outputSchema |-> Object,
     owner |-> Text, promptDigest |-> Text, repairPolicy |-> Object,
     role |-> Text, runtimeBinding |-> Object, stopConditions |-> Distinct(1),
     toolProfile |-> Object, turnLimit |-> Count(1)]
AgentEvent ==
    [artifactReference |-> Optional(Object), contractBomReference |-> Object,
     eventId |-> Text, eventType |-> Text, kind |-> Fixed,
     occurredAt |-> Moment, payload |-> Optional(Table), projectId |-> Text,
     runId |-> Text, sequence |-> Whole(1), subject |-> Object,
     taskId |-> Optional(Text), traceContext |-> Object, workspaceId |-> Text]
AgentEvidence ==
    [artifactReference |-> Optional(Object),
     causedByEvidenceId |-> Optional(Text), dataClassification |-> Text,
     evidenceId |-> Text, evidenceSequence |-> Whole(1), evidenceType |-> Text,
     kind |-> Fixed, occurredAt |-> Moment, payload |-> Optional(Table),
     producer |-> Object, projectId |-> Text, publicEventId |-> Optional(Text),
     recordedAt |-> Moment, retentionCategory |-> Text, runId |-> Text,
     traceContext |-> Object, turnId |-> Optional(Text),
     workflowId |-> Optional(Text), workspaceId |-> Text]
AgentRun ==
    [actorId |-> Text, budget |-> Object, contractBomReference |-> Object,
     createdAt |-> Moment, definition |-> Object, domain |-> Text,
     executionGeneration |-> Whole(0), idempotency |-> Object, kind |-> Fixed,
     operation |-> Text, parentRunId |-> Optional(Text), policy |-> Object,
     problem |-> Optional(Object), resourceRevision |-> Whole(0),
     rootRunId |-> Text, runId |-> Text, runtimeBinding |-> Object,
     status |-> Text, target |-> Object, updatedAt |-> Moment,
     workspaceId |-> Text]
AgentRunSnapshot ==
    [artifacts |-> Items(0), cursor |-> Optional(Text), kind |-> Fixed,
     run |-> Object]
AgentRuntimeManifest ==
    [capabilities |-> Distinct(1), definition |-> Object, execution |-> Object,
     image |-> Object, kind |-> Fixed, lifecycle |-> Object,
     protocol |-> Object, release |-> Object, role |-> Text,
     runtimeUnitId |-> Text, scaling |-> Object, telemetry |-> Object,
     workload |-> Object]
AgentRuntimeResult ==
    [attemptNumber |-> Count(1), diagnostics |-> Items(0),
     executionGeneration |-> Whole(0), fenceToken |-> Text, kind |-> Fixed,
     leaseEpoch |-> Whole(0), physicalAttemptId |-> Text, rootRunId |-> Text,
     runId |-> Text, selected |-> Object, signature |-> Object,
     status |-> Object, taskId |-> Text, traceContext |-> Object,
     turnDecision |-> Object, usage |-> Object]
AgentRuntimeResultUsage ==
    [cost |-> Object, durationMilliseconds |-> Count(0),
     inputTokens |-> Whole(0), modelCalls |-> Count(0),
     outputTokens |-> Whole(0), toolCalls |-> Count(0)]
AgentStreamDelta ==
    [channel |-> Text, emittedAt |-> Moment, kind |-> Fixed, payload |-> Table,
     provisional |-> Fixed, runId |-> Text, traceContext |-> Optional(Object),
     turnId |-> Optional(Text), workspaceId |-> Text]
AgentTask ==
    [artifactInputs |-> Items(0), attemptNumber |-> Count(1),
     authorizationAudience |-> Text, capability |-> Text,
     contractBomReference |-> Object, definition |-> Object,
     executionGeneration |-> Whole(0), expiresAt |-> Moment,
     fenceToken |-> Text, idempotency |-> Object, inputSchema |-> Object,
     kind |-> Fixed, leaseEpoch |-> Whole(0), limits |-> Object,
     parameters |-> Table, physicalAttemptId |-> Text, resources |-> Object,
     rootRunId |-> Text, runId |-> Text, runtimeBinding |-> Object,
     taskId |-> Text, traceContext |-> Object]
ApplyAuthorization ==
    [actionDigest |-> Text, actorId |-> Text, approvalVersion |-> Whole(1),
     artifactDigest |-> Text, audience |-> Fixed, authorizationId |-> Text,
     baseRevision |-> Text, catalogDigest |-> Text, contractBomDigest |-> Text,
     definitionDigest |-> Text, expiresAt |-> Moment, issuedAt |-> Moment,
     issuer |-> Fixed, keyId |-> Text, kind |-> Fixed, notBefore |-> Moment,
     policyDigest |-> Text, runId |-> Text, target |-> Object,
     workspaceId |-> Text]
ApprovalRequest ==
    [actionDigest |-> Text, allowedDecisions |-> Distinct(1), cost |-> Object,
     decisionVersion |-> Whole(1), effects |-> Items(1), expiresAt |-> Moment,
     kind |-> Fixed, requestId |-> Text, resumeState |-> Text,
     reviewerPolicy |-> Object, runId |-> Text]
ArtifactContentGrant ==
    [actorId |-> Text, artifactId |-> Text, digest |-> Text,
     expiresAt |-> Moment, kind |-> Fixed, purpose |-> Text,
     securityGeneration |-> Whole(0), url |-> Text]
CatalogReuseEvidence ==
    [catalogRevision |-> Text, considered |-> Items(0), fingerprint |-> Text,
     kind |-> Fixed, likelyDuplicate |-> Optional(Object),
     rejected |-> Items(0), selected |-> Items(0), snapshotId |-> Text]
CatalogSearchRequest ==
    [catalogRevision |-> Optional(Text), cursor |-> Optional(Text),
     kind |-> Fixed, limit |-> Count(1), query |-> Object, scope |-> Object,
     visibility |-> Items(1)]
CatalogSearchResult ==
    [catalogDigest |-> Text, catalogRevision |-> Text, entries |-> Items(0),
     fingerprint |-> Text, kind |-> Fixed, pageInfo |-> Object]
CatalogSearchResultEntriesElem ==
    [componentId |-> Text, componentName |-> Text, description |-> FreeText,
     exemplar |-> Flag, matchedFields |-> Items(1), packageName |-> Text,
     packageVersion |-> Text, score |-> Text, status |-> Text,
     tags |-> Strings(0), visibility |-> Text]
CatalogSnapshot ==
    [allowedComponents |-> Items(0), approvedAssets |-> Items(0),
     approvedFonts |-> Items(0), capturedAt |-> Moment, catalogDigest |-> Text,
     catalogRevision |-> Text, designTokens |-> Items(0),
     forbiddenComponents |-> Items(0), kind |-> Fixed, puckRuntime |-> Object]
CompiledContext ==
    [classifications |-> Distinct(1), compiledAt |-> Moment, kind |-> Fixed,
     layerDigests |-> Items(1), orderedTrustLayers |-> Items(1),
     policySnapshot |-> Object, redaction |-> Object, tokenBudgets |-> Object]
CompiledContextTokenBudgets ==
    [memory |-> Whole(0), system |-> Whole(0), tools |-> Whole(0),
     total |-> Whole(0), user |-> Whole(0)]
ComponentCatalogArtifact ==
    [catalogRevision |-> Text, compatibilityMatrix |-> Items(0),
     components |-> Items(0), contractBomDigest |-> Text, createdAt |-> Moment,
     files |-> Items(0), kind |-> Fixed, puckRuntime |-> Text,
     reactRuntime |-> Text, schemaVersion |-> Count(1), signature |-> Text,
     signatureAlgorithm |-> Text, signingKeyId |-> Text,
     signingPurpose |-> Fixed, sourceCommit |-> Text,
     sourceRepository |-> Text, sourceWorkflowRun |-> Text]
ComponentCatalogArtifactEntry ==
    [capabilities |-> Strings(0), category |-> Text, componentId |-> Text,
     componentName |-> Text, componentSlug |-> Text, description |-> FreeText,
     exemplar |-> Flag, exports |-> Items(0), i18nKeys |-> Strings(0),
     packageName |-> Text, packageVersion |-> Text, peerDependencies |-> Table,
     previewRef |-> Text, props |-> Items(0), scaffoldType |-> Text,
     slots |-> Items(0), sourceEvidence |-> Object, status |-> Text,
     styleTargets |-> Strings(0), tags |-> Strings(0), variants |-> Strings(0),
     visibility |-> Text]
ComponentDesignSpec ==
    [accessibilityRequirements |-> Items(0), approvedAssetNeeds |-> Items(0),
     composition |-> Items(0), designTokenUsage |-> Items(0),
     intent |-> Object, kind |-> Fixed, namespace |-> Object,
     previewScenarios |-> Items(0), props |-> Items(0),
     stateModel |-> Items(0), unresolvedDecisions |-> Items(0),
     variants |-> Items(0)]
ComponentIntent ==
    [accessibility |-> Object, assumptions |-> Strings(0),
     brandSnapshotRef |-> Object, catalogEvidence |-> Object,
     contentModel |-> Items(0), interactions |-> Items(0), kind |-> Fixed,
     name |-> Object, publicApi |-> Object, purpose |-> Object,
     responsiveness |-> Object, states |-> Items(0), targetScope |-> Object,
     unresolved |-> Items(0), variants |-> Items(0)]
ComponentIr ==
    [accessibility |-> Object, assets |-> Items(0),
     catalogLineage |-> Items(0), composition |-> Items(0),
     content |-> Items(0), dependencies |-> Items(0), filePlan |-> Items(0),
     generation |-> Object, identity |-> Object, kind |-> Fixed,
     motion |-> Object, props |-> Items(0), responsive |-> Items(0),
     schemaVersion |-> Count(1), slots |-> Items(0), states |-> Items(0),
     tokens |-> Items(0), variants |-> Items(0), version |-> Whole(1)]
ComponentPackageSpec ==
    [buildPolicy |-> Object, certificationPolicy |-> Object,
     inputs |-> Items(0), kind |-> Fixed, outputs |-> Items(1),
     packageIntent |-> Object, validationConstraints |-> Items(1)]
ComponentRequest ==
    [accessibility |-> Optional(Object), assetConstraints |-> Optional(Object),
     brandId |-> Optional(Text), distributionIntent |-> Optional(Text),
     idempotencyKey |-> Text, kind |-> Fixed, motion |-> Optional(Object),
     nameHint |-> Optional(Text), packageScope |-> Optional(Text),
     preferredComponents |-> Optional(Strings(1)), prompt |-> Text,
     responsive |-> Optional(Object), targetProjectId |-> Text]
ContractBom ==
    [components |-> Items(1), createdAt |-> Moment, digest |-> Text,
     issuer |-> Text, kind |-> Fixed, name |-> Text, profileDigest |-> Text,
     registrySetDigest |-> Text]
ContractBomEntry ==
    [dependencies |-> Items(0), digest |-> Text, issuer |-> Text,
     kind |-> Text, mediaType |-> Text, name |-> Text,
     provenanceDigest |-> Text, size |-> Whole(0)]
ContractRevocationSnapshot ==
    [issuedAt |-> Instant, kind |-> Fixed, nextUpdate |-> Instant,
     revokedKeys |-> Distinct(0), snapshotId |-> Text]
ContractRuntimeRequest ==
    [bundleDigest |-> Text, canonicalInput |-> Text,
     canonicalInputDigest |-> Text, contract |-> Object, kind |-> Fixed,
     limits |-> Object, operation |-> Text, policy |-> Object,
     traceContext |-> Optional(Object)]
ContractRuntimeResult ==
    [bundleDigest |-> Text, canonicalOutput |-> Optional(Text),
     executionDigest |-> Text, kind |-> Fixed, outcome |-> Text,
     outputDigest |-> Optional(Text), policyDigest |-> Text,
     problem |-> Optional(Object), runtime |-> Object, schemaDigest |-> Text]
ContractSignatureStatement ==
    [algorithm |-> Fixed, audience |-> Fixed, contractBomDigest |-> Text,
     expiresAt |-> Instant, issuedAt |-> Instant, issuer |-> Fixed,
     keyId |-> Text, kind |-> Fixed, notBefore |-> Instant, subject |-> Object]
ContractSignatureStatementSubject ==
    [digest |-> Text, mediaType |-> Text, purpose |-> Text, size |-> Whole(0)]
ContractTrustRoot ==
    [issuedAt |-> Instant, keys |-> Distinct(1), kind |-> Fixed,
     maximumClockSkewSeconds |-> Count(0), nextUpdate |-> Instant,
     snapshotId |-> Text]
ContractTrustRootKeysElem ==
    [algorithms |-> Distinct(1), audiences |-> Strings(1), issuer |-> Text,
     keyId |-> Text, notAfter |-> Instant, notBefore |-> Instant,
     publicKeyJwk |-> Object, status |-> Text]
CreateAgentRunRequest ==
    [definition |-> Object, input |-> Optional(Object), kind |-> Fixed,
     labels |-> Optional(Table), operation |-> Text, target |-> Object]
DecideArtifactCustodyRequest ==
    [artifactId |-> Text, basis |-> Text, decision |-> Text, kind |-> Fixed,
     ticket |-> Text]
ImageOperationPlan ==
    [inputs |-> Items(1), kind |-> Fixed, limits |-> Object,
     operations |-> Items(1), outputs |-> Items(1),
     validationPolicy |-> Object]
InputRequest ==
    [expiresAt |-> Moment, kind |-> Fixed, question |-> Text,
     requestId |-> Text, responseSchema |-> Object, resumeState |-> Text,
     runId |-> Text, version |-> Whole(1)]
IssueApplyAuthorizationRequest ==
    [actionDigest |-> Text, approvalReference |-> Object, artifact |-> Object,
     baseRevision |-> Text, expectedRunRevision |-> Whole(0), kind |-> Fixed,
     runId |-> Text, target |-> Object]
IssueArtifactContentGrantRequest ==
    [artifactId |-> Text, kind |-> Fixed, purpose |-> Text]
IssuedApplyAuthorization ==
    [authorization |-> Object, compactJws |-> Text, kind |-> Fixed]
ModelInvocationRequest ==
    [attemptNumber |-> Count(1), contextDigest |-> Text,
     contractBomReference |-> Object, definition |-> Object,
     executionGeneration |-> Whole(0), idempotency |-> Object, kind |-> Fixed,
     limits |-> Object, modelPolicy |-> Object, physicalAttemptId |-> Text,
     promptDigest |-> Text, rootRunId |-> Text, runId |-> Text,
     taskId |-> Text, traceContext |-> Object]
ModelInvocationResult ==
    [attemptNumber |-> Count(1), executionGeneration |-> Whole(0),
     invocationId |-> Text, kind |-> Fixed, outcome |-> Text, output |-> Table,
     outputDigest |-> Text, physicalAttemptId |-> Text, reasonCode |-> Text,
     taskId |-> Text, traceContext |-> Object, usage |-> Object]
PageCandidate ==
    [baseRevision |-> Text, candidateDigest |-> Text, digests |-> Object,
     generation |-> Object, kind |-> Fixed, pageData |-> Object,
     pageIr |-> Optional(Object), preview |-> Object, references |-> Object,
     target |-> Object, validationReceipts |-> Items(0), warnings |-> Items(0)]
PagePreviewResult ==
    [accessibilityFindings |-> Items(0), candidateDigest |-> Text,
     componentResolution |-> Items(0), evidence |-> Items(0), kind |-> Fixed,
     policyViolations |-> Items(0), resourceUsage |-> Object,
     screenshots |-> Items(0), traceContext |-> Object,
     viewportStatuses |-> Items(1), workerEnvironment |-> Object]
PagePreviewTask ==
    [candidate |-> Object, candidateDigest |-> Text, deadlineAt |-> Moment,
     expected |-> Object, kind |-> Fixed, limits |-> Object,
     matrix |-> Items(1), resolved |-> Object, runtimeProfile |-> Object]
PagixCommitReceipt ==
    [actorId |-> Text, candidateDigest |-> Text, committedAt |-> Moment,
     committedPageDataDigest |-> Text, idempotencyOutcome |-> Text,
     kind |-> Fixed, newRevision |-> Text, outboxId |-> Text,
     permissionDecision |-> Object, previousRevision |-> Text,
     redeemedAuthorizationId |-> Text, traceContext |-> Object]
PersistAuthorizedPageRequest ==
    [authorization |-> Object, candidateDigest |-> Text, kind |-> Fixed,
     pageCandidate |-> Text, pageDocument |-> Text,
     pageDocumentDigest |-> Text]
ProblemDetails ==
    [code |-> Text, fieldErrors |-> Items(0), kind |-> Fixed, message |-> Text,
     retryability |-> Text, runId |-> Optional(Text), stage |-> Optional(Text),
     traceId |-> Optional(Text)]
ProviderContinuation ==
    [bindingDigest |-> Text, encryptedBinding |-> Text, expiresAt |-> Moment,
     kind |-> Fixed, provider |-> Text, restartPolicy |-> Text]
ResolveDomainOperationRequest ==
    [basis |-> Text, kind |-> Fixed, operationId |-> Text, outcome |-> Text]
SubmitApprovalDecisionRequest ==
    [actionDigest |-> Text, comment |-> Optional(Text), decision |-> Text,
     decisionVersion |-> Whole(1), kind |-> Fixed]
SubmitInputResponseRequest ==
    [kind |-> Fixed, requestVersion |-> Whole(1), responsePayload |-> Table]
TargetSnapshot ==
    [baseRevision |-> Text, capturedAt |-> Moment, catalogDigest |-> Text,
     contractBomDigest |-> Text, kind |-> Fixed, snapshot |-> Object,
     target |-> Object]
ToolDefinition ==
    [acceptedDataClasses |-> Distinct(1), approvalPolicy |-> Object,
     capability |-> Text, inputSchema |-> Object, kind |-> Fixed,
     outputSchema |-> Object, retryPolicy |-> Object, riskClass |-> Text,
     sideEffectClass |-> Text, timeoutPolicy |-> Object, toolId |-> Text]
UsageObservation ==
    [cost |-> Object, executionGeneration |-> Whole(0), final |-> Flag,
     kind |-> Fixed, meter |-> Text, meterSequence |-> Whole(0),
     observationId |-> Text, observedAt |-> Moment, physicalAttemptId |-> Text,
     providerEventId |-> Optional(Text), quantity |-> Text,
     recoveryEpoch |-> Whole(0), reservationId |-> Text, rootRunId |-> Text,
     runId |-> Text, source |-> Object, taskId |-> Text,
     traceContext |-> Object, unit |-> Text]
ValidationFinding ==
    [checkId |-> Text, code |-> Text, evidenceDigest |-> Optional(Text),
     kind |-> Fixed, location |-> Object, message |-> Text,
     producer |-> Object, remediation |-> Optional(Text),
     retryability |-> Text, severity |-> Text]
WorkerLease ==
    [attemptNumber |-> Count(1), executionGeneration |-> Whole(0),
     expiresAt |-> Moment, fenceToken |-> Text, issuedAt |-> Moment,
     kind |-> Fixed, leaseEpoch |-> Whole(0), owner |-> Text,
     physicalAttemptId |-> Text, recoveryEpoch |-> Whole(0), taskId |-> Text]
WorkerResult ==
    [artifacts |-> Items(0), buildIdentity |-> Text, capability |-> Text,
     completedAt |-> Moment, executionGeneration |-> Whole(0), kind |-> Fixed,
     leaseEpoch |-> Whole(0), metrics |-> Table, physicalAttemptId |-> Text,
     problem |-> Optional(Object), recoveryEpoch |-> Whole(0), taskId |-> Text,
     usageReferences |-> Items(0), warnings |-> Items(0)]
\* The document types, each with its fields.
Shape == [
    AgentArtifact |-> AgentArtifact,
    AgentArtifactReference |-> AgentArtifactReference,
    AgentBudget |-> AgentBudget,
    AgentDefinition |-> AgentDefinition,
    AgentEvent |-> AgentEvent,
    AgentEvidence |-> AgentEvidence,
    AgentRun |-> AgentRun,
    AgentRunSnapshot |-> AgentRunSnapshot,
    AgentRuntimeManifest |-> AgentRuntimeManifest,
    AgentRuntimeResult |-> AgentRuntimeResult,
    AgentRuntimeResultUsage |-> AgentRuntimeResultUsage,
    AgentStreamDelta |-> AgentStreamDelta,
    AgentTask |-> AgentTask,
    ApplyAuthorization |-> ApplyAuthorization,
    ApprovalRequest |-> ApprovalRequest,
    ArtifactContentGrant |-> ArtifactContentGrant,
    CatalogReuseEvidence |-> CatalogReuseEvidence,
    CatalogSearchRequest |-> CatalogSearchRequest,
    CatalogSearchResult |-> CatalogSearchResult,
    CatalogSearchResultEntriesElem |-> CatalogSearchResultEntriesElem,
    CatalogSnapshot |-> CatalogSnapshot,
    CompiledContext |-> CompiledContext,
    CompiledContextTokenBudgets |-> CompiledContextTokenBudgets,
    ComponentCatalogArtifact |-> ComponentCatalogArtifact,
    ComponentCatalogArtifactEntry |-> ComponentCatalogArtifactEntry,
    ComponentDesignSpec |-> ComponentDesignSpec,
    ComponentIntent |-> ComponentIntent,
    ComponentIr |-> ComponentIr,
    ComponentPackageSpec |-> ComponentPackageSpec,
    ComponentRequest |-> ComponentRequest,
    ContractBom |-> ContractBom,
    ContractBomEntry |-> ContractBomEntry,
    ContractRevocationSnapshot |-> ContractRevocationSnapshot,
    ContractRuntimeRequest |-> ContractRuntimeRequest,
    ContractRuntimeResult |-> ContractRuntimeResult,
    ContractSignatureStatement |-> ContractSignatureStatement,
    ContractSignatureStatementSubject |-> ContractSignatureStatementSubject,
    ContractTrustRoot |-> ContractTrustRoot,
    ContractTrustRootKeysElem |-> ContractTrustRootKeysElem,
    CreateAgentRunRequest |-> CreateAgentRunRequest,
    DecideArtifactCustodyRequest |-> DecideArtifactCustodyRequest,
    ImageOperationPlan |-> ImageOperationPlan,
    InputRequest |-> InputRequest,
    IssueApplyAuthorizationRequest |-> IssueApplyAuthorizationRequest,
    IssueArtifactContentGrantRequest |-> IssueArtifactContentGrantRequest,
    IssuedApplyAuthorization |-> IssuedApplyAuthorization,
    ModelInvocationRequest |-> ModelInvocationRequest,
    ModelInvocationResult |-> ModelInvocationResult,
    PageCandidate |-> PageCandidate,
    PagePreviewResult |-> PagePreviewResult,
    PagePreviewTask |-> PagePreviewTask,
    PagixCommitReceipt |-> PagixCommitReceipt,
    PersistAuthorizedPageRequest |-> PersistAuthorizedPageRequest,
    ProblemDetails |-> ProblemDetails,
    ProviderContinuation |-> ProviderContinuation,
    ResolveDomainOperationRequest |-> ResolveDomainOperationRequest,
    SubmitApprovalDecisionRequest |-> SubmitApprovalDecisionRequest,
    SubmitInputResponseRequest |-> SubmitInputResponseRequest,
    TargetSnapshot |-> TargetSnapshot,
    ToolDefinition |-> ToolDefinition,
    UsageObservation |-> UsageObservation,
    ValidationFinding |-> ValidationFinding,
    WorkerLease |-> WorkerLease,
    WorkerResult |-> WorkerResult]
Types == DOMAIN Shape

------------------------------------------------------------------------------
(* One field. *)

\* What the schema says of a value; a map has a maximum of entries only.
Admissible(kind, v) ==
    CASE v = "good" -> TRUE
      [] v = "absent" -> kind.optional
      [] v \in {"empty", "zero"} -> kind.floor = 0 \/ kind.sort = "table"
      [] v \in {"false", "fraction", "whole", "leap", "escaped"} -> TRUE
      [] OTHER -> FALSE

\* The decoder of time.Time: any fraction and any offset of RFC 3339, but no
\* minute of 61 seconds, and it looks at the text as it stands in the document.
\* Of what it reads it keeps nanoseconds and the offset, not how they were written.
ReadInstant(v) ==
    CASE v = "respelled" -> "good"
      [] v \in {"loose", "leap", "escaped", "other"} -> Refused
      [] OTHER -> v

\* time.Parse with the layout of the contracts: the Z, the dot and three digits
\* are asked for, but it takes a comma for the dot and one digit for the hour.
ReadMoment(v) ==
    CASE v \in {"good", "whole"} -> v
      [] v = "loose" -> "good"
      [] OTHER -> Refused

\* A map of strings: a null value is read as the empty string.
ReadTable(v) ==
    CASE v \in {"good", "empty"} -> v
      [] v = "nullItem" -> "good"
      [] OTHER -> Refused

BugMinimumExcluded(kind, v) == IF v = "good" THEN v ELSE Refused

ReadCount(kind, v) ==
    CASE v = "good" -> v
      [] v \in {"zero", "minusZero"} /\ kind.floor = 0 -> "zero"
      [] OTHER -> Refused

\* Only the length of a list is checked, and the items that have a binding.
ReadList(kind, v) ==
    CASE v \in {"good", "twins", "badItem"} -> v
      [] v = "empty" /\ kind.floor = 0 -> v
      [] v = "nullItem" -> "badItem"
      [] OTHER -> Refused

BugNullIsEmpty(kind) ==
    CASE kind.sort \in Counts /\ kind.floor = 0 -> "zero"
      [] kind.sort \in Lists /\ kind.floor = 0 -> "empty"
      [] OTHER -> Refused

\* json.Unmarshal leaves a value without a decoder of its own as it is when the
\* document says null: the check of the bounds then sees the zero value, but that
\* of the number of items makes an exception of nil.
ReadNull(kind) ==
    CASE kind.sort \in Counts /\ kind.floor = 0 -> "zero"
      [] kind.sort = "text" /\ kind.floor = 0 -> "empty"
      [] kind.sort = "flag" -> "false"
      [] kind.sort = "instant" -> "yearOne"
      [] kind.sort = "fixed" -> "nil"
      [] kind.sort \in Lists -> "nil"
      [] OTHER -> Refused

\* The checks of the required fields, of the patterns and of the bounds.
Read(kind, v) ==
    CASE v = "absent" -> IF kind.optional THEN "nil" ELSE Refused
      [] v = "null" /\ kind.optional ->
             IF kind.sort = "table" THEN Refused ELSE "nil"
      [] v = "null" /\ ~kind.optional -> ReadNull(kind)
      [] OTHER ->
             CASE kind.sort = "fixed" -> v
               [] kind.sort \in Counts -> ReadCount(kind, v)
               [] kind.sort = "moment" -> ReadMoment(v)
               [] kind.sort = "instant" -> ReadInstant(v)
               [] kind.sort = "table" -> ReadTable(v)
               [] kind.sort \in Lists -> ReadList(kind, v)
               [] OTHER -> IF Admissible(kind, v) THEN v ELSE Refused

BugEmptyOmitted(kind, v) ==
    CASE v = "nil" -> IF kind.optional THEN "absent" ELSE "null"
      [] v = "empty" /\ kind.sort \in Lists -> "absent"
      [] OTHER -> v

BugFractionTrimmed(kind, v) ==
    CASE v = "nil" -> IF kind.optional THEN "absent" ELSE "null"
      [] v = "empty" /\ kind.optional /\ kind.sort \in Collections -> "absent"
      [] v = "whole" -> "trimmed"
      [] OTHER -> v

\* omitempty and omitzero leave out an optional collection without an item;
\* time.Time writes a fraction without the zeros at its end.
Write(kind, v) ==
    CASE v = "nil" -> IF kind.optional THEN "absent" ELSE "null"
      [] v = "empty" /\ kind.optional /\ kind.sort \in Collections -> "absent"
      [] v = "whole" /\ kind.sort = "instant" -> "trimmed"
      [] OTHER -> v

------------------------------------------------------------------------------
(* A document: its type, the form of its text and its values. *)

\* "clean" text; a field that the type has not got ("extra"), one that comes
\* twice, a second value behind the document, more than 64 levels, more bytes
\* than are admitted, a byte order mark, and null instead of an object.  Bytes
\* that are not UTF-8 and the escape of half a surrogate pair may be in a string
\* of which no pattern is checked ("bytes", "half"), or in the name of a field
\* that the type has not got ("nameBytes", "nameHalf").
Forms == {"clean", "extra", "twice", "trailing", "deep", "oversized", "mark", "null",
          "bytes", "half", "nameBytes", "nameHalf"}

Document(type, form, fields) == [type |-> type, form |-> form, fields |-> fields]

\* Unknown fields and duplicate names are refused before anything is read.  What is
\* no character is read as U+FFFD, which is one like any other.
rejectUnknownJSONFields(doc) == doc.form \in {"clean", "oversized", "bytes", "half"}

\* UnmarshalJSON of the type of the document returns no error, ...
Accepts(doc) ==
    LET shape == Shape[doc.type] IN
    /\ rejectUnknownJSONFields(doc)
    /\ \A f \in DOMAIN shape : Read(shape[f], doc.fields[f]) # Refused

\* ... and this is what it has read.
UnmarshalJSON(doc) ==
    LET shape == Shape[doc.type]
    IN  [type |-> doc.type,
         values |-> [f \in DOMAIN shape |-> Read(shape[f], doc.fields[f])]]

\* The document that json.Marshal writes for a value.
MarshalJSON(value) ==
    LET shape == Shape[value.type]
    IN  Document(value.type, "clean",
                 [f \in DOMAIN shape |-> Write(shape[f], value.values[f])])
=============================================================================
