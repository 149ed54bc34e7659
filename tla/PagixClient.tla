----------------------------- MODULE PagixClient -----------------------------
(*****************************************************************************)
(* The eight operations of packages/contracts-go/generated/pagixclient, in   *)
(* the form of AgentClient.                                                  *)
(*****************************************************************************)
EXTENDS ContractClient

NewFinalizeAgentAssetRequest ==
    Post(<<"internal", "agent", "assets", "finalization">>,
         CommandHeaders)
ParseFinalizeAgentAssetResponse ==
    Decodes(200, "AgentArtifact", CommandProblems, ReplayHeaders)
FinalizeAgentAsset ==
    Call(NewFinalizeAgentAssetRequest, ParseFinalizeAgentAssetResponse)

NewReserveAgentAssetRequest ==
    Post(<<"internal", "agent", "assets", "reservations">>,
         CommandHeaders)
ParseReserveAgentAssetResponse ==
    Decodes(201, "SharedPrimitivesBoundedStringMap", CommandProblems,
            ReplayHeaders)
ReserveAgentAsset ==
    Call(NewReserveAgentAssetRequest, ParseReserveAgentAssetResponse)

NewCreateTargetSnapshotRequest ==
    Post(<<"internal", "agent", "context-snapshots">>,
         CommandHeaders)
ParseCreateTargetSnapshotResponse ==
    Decodes(201, "TargetSnapshot", CommandProblems, ReplayHeaders)
CreateTargetSnapshot ==
    Call(NewCreateTargetSnapshotRequest, ParseCreateTargetSnapshotResponse)

NewPersistAuthorizedPageRequest ==
    Post(<<"internal", "agent", "domain", "page-persistence">>,
         CommandHeaders)
ParsePersistAuthorizedPageResponse ==
    Decodes(200, "PagixCommitReceipt", CommandProblems, ReplayHeaders)
PersistAuthorizedPage ==
    Call(NewPersistAuthorizedPageRequest, ParsePersistAuthorizedPageResponse)

NewCheckAgentEntitlementRequest ==
    Post(<<"internal", "agent", "entitlements", "check">>,
         CommandHeaders)
ParseCheckAgentEntitlementResponse ==
    Decodes(200, "SharedPrimitivesBoundedStringMap", CommandProblems,
            ReplayHeaders)
CheckAgentEntitlement ==
    Call(NewCheckAgentEntitlementRequest, ParseCheckAgentEntitlementResponse)

NewObserveAgentUsageRequest ==
    Post(<<"internal", "agent", "usage", "observations">>,
         CommandHeaders)
ParseObserveAgentUsageResponse ==
    Decodes(201, "SharedPrimitivesBoundedStringMap", CommandProblems,
            ReplayHeaders)
ObserveAgentUsage ==
    Call(NewObserveAgentUsageRequest, ParseObserveAgentUsageResponse)

NewReconcileAgentUsageRequest ==
    Post(<<"internal", "agent", "usage", "reconciliation">>,
         CommandHeaders)
ParseReconcileAgentUsageResponse ==
    Decodes(200, "SharedPrimitivesBoundedStringMap", CommandProblems,
            ReplayHeaders)
ReconcileAgentUsage ==
    Call(NewReconcileAgentUsageRequest, ParseReconcileAgentUsageResponse)

NewReserveAgentUsageRequest ==
    Post(<<"internal", "agent", "usage", "reservations">>,
         CommandHeaders)
ParseReserveAgentUsageResponse ==
    Decodes(201, "SharedPrimitivesBoundedStringMap", CommandProblems,
            ReplayHeaders)
ReserveAgentUsage ==
    Call(NewReserveAgentUsageRequest, ParseReserveAgentUsageResponse)

\* The operations of the interface, by name.
PagixOperations ==
    [ FinalizeAgentAsset    |-> FinalizeAgentAsset,
      ReserveAgentAsset     |-> ReserveAgentAsset,
      CreateTargetSnapshot  |-> CreateTargetSnapshot,
      PersistAuthorizedPage |-> PersistAuthorizedPage,
      CheckAgentEntitlement |-> CheckAgentEntitlement,
      ObserveAgentUsage     |-> ObserveAgentUsage,
      ReconcileAgentUsage   |-> ReconcileAgentUsage,
      ReserveAgentUsage     |-> ReserveAgentUsage ]
==============================================================================
