---------------------------- MODULE BucketDomain ----------------------------
(***************************************************************************)
(* The pure rules of the bucket service (domain/domain.go): which cluster  *)
(* serves a region, what a bucket is called, what a claim's state means.   *)
(* A name is the sequence of the words its dashes separate; clusters are   *)
(* numbered in the order of their names.                                   *)
(***************************************************************************)
EXTENDS Naturals, Sequences, FiniteSetsExt

CONSTANTS
    Clusters,  \* ClusterProfiles, numbered from 1 in the order of their names
    MaxWords   \* what CheckBucketName lets pass of 63 characters, in words

\* No cluster, and the empty tenant label.
NoCluster == 0
NoTenant == << >>

\* "%s-%s"
BucketName(tenant, name) == tenant \o name

\* With a tenant a bucket's name is never too short.
CheckBucketName(bucket) == Len(bucket) <= MaxWords

\* profiles gives the region label of the profiles the selector matches.
Serving(region, profiles) == {c \in Clusters : profiles[c] = region}

ResolveCluster(region, profiles) ==
    IF Serving(region, profiles) = {} THEN NoCluster
    ELSE Min(Serving(region, profiles))

Phases == {"Pending", "Ready", "Unschedulable"}

Messages == {"none", "no object storage", "missing tenant"}

\* The endpoint is known exactly when the phase is Ready.
Status(region, phase, bucket, message) ==
    [region |-> region, phase |-> phase, bucket |-> bucket, message |-> message]

\* bound and config are FALSE for a claim that is not there.
ReadyStatus(region, bucket, bound, config) ==
    Status(region, IF bound /\ config THEN "Ready" ELSE "Pending", bucket, "none")

SlipNoPhase(region) == Status(region, "", << >>, "no object storage")

UnschedulableStatus(region) ==
    Status(region, "Unschedulable", << >>, "no object storage")

MissingTenantStatus(region) ==
    Status(region, "Unschedulable", << >>, "missing tenant")
=============================================================================
