------------------------------ MODULE Registry ------------------------------
(***************************************************************************)
(* The messages of livepeer.registry.v1                                    *)
(* (providers/resolver/gen/livepeer/registry/v1), which the resolver       *)
(* daemon speaks.  The console uses those of resolver.proto and of         *)
(* types.proto; publisher.proto is generated along with them.              *)
(***************************************************************************)
EXTENDS Wire

Empty == <<>>

\* types.ts
Offering == <<Str(1, "id"), Str(2, "pricePerWorkUnitWei"), Bytes(3, "constraintsJson")>>
Capability == <<Str(1, "name"), Str(2, "workUnit"), Many(3, "offerings", Offering),
                Bytes(4, "extraJson")>>
Node == <<Str(1, "id"), Str(2, "url"), Str(3, "workerEthAddress"), Bytes(4, "extraJson"),
          Many(5, "capabilities", Capability), Enum(6, "source"),
          Enum(7, "signatureStatus"), Str(8, "operatorAddress"), Bool(9, "enabled"),
          Strs(10, "tierAllowed"), Num(11, "weight")>>

\* resolver.ts
ResolveByAddressRequest == <<Str(1, "ethAddress"), Bool(2, "allowLegacyFallback"),
                             Bool(3, "allowUnsigned"), Bool(4, "forceRefresh")>>
ResolveResult == <<Str(1, "ethAddress"), Str(2, "resolvedUri"), Enum(3, "mode"),
                   Many(4, "nodes", Node), Enum(5, "freshnessStatus"),
                   Date(6, "cachedAt"), Date(7, "fetchedAt"), Str(8, "schemaVersion")>>
SelectRequest == <<Str(1, "capability"), Str(2, "offering"), Str(3, "tier"),
                   Num(4, "minWeight")>>
SelectedRoute == <<Str(1, "workerUrl"), Str(2, "ethAddress"), Str(3, "capability"),
                   Str(4, "offering"), Str(5, "pricePerWorkUnitWei"), Str(6, "workUnit"),
                   Bytes(7, "extraJson"), Bytes(8, "constraintsJson")>>
SelectResult == <<Sub(1, "route", SelectedRoute)>>
ListKnownRequest == <<>>
KnownEntry == <<Str(1, "ethAddress"), Enum(2, "mode"), Enum(3, "freshnessStatus"),
                Date(4, "cachedAt")>>
ListKnownResult == <<Many(1, "entries", KnownEntry)>>
RefreshRequest == <<Str(1, "ethAddress"), Bool(2, "force")>>
GetAuditLogRequest == <<Str(1, "ethAddress"), Date(2, "since"), Num(3, "limit")>>
AuditEvent == <<Date(1, "at"), Str(2, "ethAddress"), Str(3, "kind"), Enum(4, "mode"),
                Str(5, "detail")>>
AuditLogResult == <<Many(1, "events", AuditEvent)>>
HealthResult == <<Str(1, "mode"), Bool(2, "chainOk"), Bool(3, "manifestFetcherOk"),
                  Num(4, "cacheSize"), Date(5, "lastChainSuccess")>>

\* publisher.ts
IdentityResult       == <<Str(1, "ethAddress")>>
BuildManifestRequest == <<Str(1, "proposedEthAddress"), Many(2, "proposedNodes", Node)>>
BuildResult          == <<Bytes(1, "manifestJson"), Bytes(2, "canonicalBytes"),
                          Str(3, "canonicalSha256")>>
BuildAndSignRequest  == <<Bytes(1, "manifestJson")>>
SignManifestRequest  == <<Bytes(1, "manifestJson")>>
SignedManifest       == <<Bytes(1, "manifestJson"), Str(2, "signatureValue")>>
TxHashResult         == <<Str(1, "txHash")>>
ProbeWorkerRequest   == <<Str(1, "url"), Num(2, "timeoutSeconds")>>
ProbeResult          == <<Bytes(1, "capabilitiesJson")>>

RegistryMessages ==
    {Empty, Timestamp, Offering, Capability, Node, ResolveByAddressRequest,
     ResolveResult, SelectRequest, SelectedRoute, SelectResult, ListKnownRequest,
     KnownEntry, ListKnownResult, RefreshRequest, GetAuditLogRequest, AuditEvent,
     AuditLogResult, HealthResult, IdentityResult, BuildManifestRequest, BuildResult,
     BuildAndSignRequest, SignManifestRequest, SignedManifest, TxHashResult,
     ProbeWorkerRequest, ProbeResult}
=============================================================================
