---------------------------- MODULE ReleaseBundle ----------------------------
(***************************************************************************)
(* The directory workspace/releases/<offer_id> of one offer: generated by  *)
(* generate-offer.js (offer-builder.js, deliverable-packager.js), approved *)
(* by release-approval-manager.js, and then what every later command reads *)
(* first.  An offer's identifier is a hash of its source, product line,    *)
(* tier and targets, so generating it again writes the same directory; the *)
(* text of its files may differ (templates, mission outputs).              *)
(***************************************************************************)
EXTENDS Naturals, FiniteSets

CONSTANTS
  Contents,         \* what the files of the bundle may hold, as one hash
  NoContent,        \* no such directory, or no approval
  Sources,          \* the missions and dataset builds on disk
  ProductLine,      \* the product line asked for: [kinds, tiers, targets, deliveryTargets, private]
  Tier,             \* the tier asked for: [name, targets, slots]
  PlatformConfig,   \* platform target -> [manual, lines, tiers]
  DeliveryConfig,   \* direct delivery target -> [manual, lines, tiers]
  MaxBuilds,        \* bound: runs of generate-offer.js
  MaxEdits          \* bound: edits of the generated files by hand

VARIABLES
  bundle,     \* [content, manifest, approval]: the files, what manifest.json
              \* lists, and release-approval.json
  generator,  \* generate-offer.js: "idle", "packaged" or "removed"
  builds, edits

bundleVars == <<bundle, generator, builds, edits>>

NoBundle == [content |-> NoContent, manifest |-> NoContent, approval |-> NoContent]

BundleInit == bundle = NoBundle /\ generator = "idle" /\ builds = 0 /\ edits = 0
-----------------------------------------------------------------------------
(* What may be packaged *)

\* A dataset is sold when validated, of quality, and of a license that is
\* cleared, or that is to be reviewed by whoever named the build.
DatasetCleared(source, explicit) ==
  source.kind = "dataset" =>
    /\ source.validation = "passed"
    /\ source.quality = "passed"
    /\ source.license # "blocked"
    /\ source.license = "review_required" => explicit
    /\ source.ready \/ source.license = "review_required"

ResolveMissionSource(source) == source.kind = "mission" /\ source.status \in {"", "completed"}

\* Without --build-id the index is asked for its latest ready build.
ResolveDatasetSource(source, explicit) ==
  /\ source.kind = "dataset"
  /\ explicit \/ source.ready
  /\ source.status \in {"", "completed"}
  /\ DatasetCleared(source, explicit)

Supports(config, targets) ==
  \A t \in targets : t \in DOMAIN config /\ ProductLine.name \in config[t].lines
                                         /\ Tier.name \in config[t].tiers

\* The configuration files are validated when the builder is created.
ValidMonetizationMap ==
  /\ ProductLine.kinds # {} /\ ProductLine.kinds \subseteq {"mission", "dataset"}
  /\ ProductLine.tiers # {}
  /\ Tier.slots # {} /\ Tier.targets # {}
ValidPlatformTargets ==
  /\ PlatformConfig # <<>>
  /\ \A t \in DOMAIN PlatformConfig :
       PlatformConfig[t].manual /\ PlatformConfig[t].lines # {} /\ PlatformConfig[t].tiers # {}
ValidDeliveryTargets ==
  /\ DeliveryConfig # <<>>
  /\ \A t \in DOMAIN DeliveryConfig :
       DeliveryConfig[t].manual /\ DeliveryConfig[t].lines # {} /\ DeliveryConfig[t].tiers # {}

BuildOffer(source, explicit, targets, deliveryTargets) ==
  /\ ValidMonetizationMap /\ ValidPlatformTargets /\ ValidDeliveryTargets
  /\ ResolveDatasetSource(source, explicit) \/ ResolveMissionSource(source)
  /\ source.kind \in ProductLine.kinds
  /\ Tier.name \in ProductLine.tiers
  /\ targets # {} /\ targets \subseteq Tier.targets /\ Supports(PlatformConfig, targets)
  /\ Supports(DeliveryConfig, deliveryTargets)
  /\ ProductLine.private => deliveryTargets # {}

\* The artifacts that the packager writes; a report of the build is copied when
\* the build has it.  One that the tier asks for and is missing is an error.
ArtifactSlots(source, deliveryTargets) ==
  {"primary_deliverable", "structured_support", "supporting_appendix", "sample_preview",
   "store_copy", "submission_metadata", "delivery_manifest", "private_delivery_note"}
  \cup (IF source.kind = "dataset" THEN {"build_report"} \cup source.reports ELSE {})
  \cup (IF deliveryTargets # {} THEN {"direct_delivery_summary"} ELSE {})
WriteDeliverables(source, deliveryTargets) == Tier.slots \subseteq ArtifactSlots(source, deliveryTargets)
-----------------------------------------------------------------------------
(* generate-offer.js *)

\* The bundle is written to a temporary directory, and its manifest last.
Package ==
  /\ generator = "idle" /\ builds < MaxBuilds
  /\ \E source \in Sources, explicit \in BOOLEAN :
       /\ BuildOffer(source, explicit, ProductLine.targets, ProductLine.deliveryTargets)
       /\ WriteDeliverables(source, ProductLine.deliveryTargets)
  /\ generator' = "packaged" /\ builds' = builds + 1
  /\ UNCHANGED <<bundle, edits>>

\* commitBundle removes the old directory with all that it holds,
RemoveBundle ==
  /\ generator = "packaged"
  /\ bundle' = NoBundle /\ generator' = "removed"
  /\ UNCHANGED <<builds, edits>>

\* and renames the temporary one; the manifest lists what was generated.
FinalizeBundle(content) == [content |-> content, manifest |-> content, approval |-> NoContent]
InstallBundle ==
  /\ generator = "removed"
  /\ \E content \in Contents : bundle' = FinalizeBundle(content)
  /\ generator' = "idle"
  /\ UNCHANGED <<builds, edits>>

\* The rename fails (a temporary directory of another file system, or one that
\* a command has put something in meanwhile), or the process ends first.
GeneratorFails ==
  /\ generator # "idle"
  /\ generator' = "idle"
  /\ UNCHANGED <<bundle, builds, edits>>
-----------------------------------------------------------------------------
(* release-approval-manager.js *)

ValidateManifest == bundle.content # NoContent /\ bundle.content = bundle.manifest

\* The hash covers neither the manifest nor the approval nor the evidence.
ComputeBundleHash == bundle.content

ApproveRelease ==
  /\ ValidateManifest
  /\ bundle' = [bundle EXCEPT !.approval = ComputeBundleHash]
  /\ UNCHANGED <<generator, builds, edits>>

ValidateApprovedRelease_NotRead == ValidateManifest
ValidateApprovedRelease ==
  /\ bundle.approval # NoContent
  /\ ValidateManifest
  /\ bundle.approval = ComputeBundleHash

\* Somebody edits a generated file, or puts it back.
EditFiles ==
  /\ edits < MaxEdits /\ bundle.content # NoContent
  /\ \E content \in Contents \ {bundle.content} : bundle' = [bundle EXCEPT !.content = content]
  /\ edits' = edits + 1
  /\ UNCHANGED <<generator, builds>>
=============================================================================
