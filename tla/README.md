# Formal models of the platform APIs

TLA+ modules, TLC configurations and TLAPS proofs for the Crossplane
composition functions of this repository. Paths below are relative to the
repository's `src/`.

Run them with `tlc -config X.cfg M` and `tlapm M.tla` in this directory.
`PROJECT.json` lists every run, every mutant a property must detect, the source
lines of every definition, the hazards and the findings.

## 1. The system

A *composite* (a `PostgreSQLUser`, a `Zone`, ...) is what a user of the platform
submits. For every composite Crossplane runs a control loop. Each *pass* reads
the composite and the resources composed for it so far, calls one of the
functions in `functions/`, and makes the cluster look like the answer: observed
resources that the answer leaves out are deleted (garbage collection), the
others are created or updated (apply). Providers turn composed resources into
AWS, PostgreSQL or Kafka objects and report in their status. The functions keep
nothing between calls: all they know is in the request.

| Component | State | Operations | Hard behaviour |
|---|---|---|---|
| Framework, `functions/common/base` | none; all of it is in the request, the composed resources and the requirements recorded by Crossplane | `RunFunction`: requirements, generation, sequence, tags, status | readings out of date, partial passes, requirements that depend on requirements, steps that regress |
| SQL kinds, `functions/database` (`PostgreSQLUser`, `MariaDBUser`, `PostgreSQLDatabase`, `MariaDBDatabase`) | Role, User, Grants, Extensions, Database, Usages | generation after what is required is ready; rotation of the password after a restore | a trigger recomputed by each pass from a status that it changes |
| RDS instances (`PostgreSQLInstance`, `MariaDBInstance`) | Instance, parameter groups, security group and rules, ProviderConfig, ExternalSecret | rebuild from a snapshot, change of version, credentials | multi-pass hand-overs steered by a status that lags behind; Fatal answers on the way |
| `ValkeyInstance` | ReplicationGroup, parameter groups, credentials Secret | hand-over between groups, credentials | connection details that disappear |
| `MSK`, `Topic`, `KafkaUser` (`functions/queue`) | Cluster, topics, k8s-secret with the password, SCRAM secret, ACLs | generation of the password, staged rollout | the password exists in a composed resource only |
| `RabbitMQBroker` (`functions/mq`) | Broker, Configurations, Secret | change of version and configuration | configurations kept until a lagging status has moved |
| `S3Bucket` (`functions/storage`) | Bucket, user, access key, credentials Secret | credentials | depend on two resources' connection details |
| `Repository` (`functions/artifact`) | Repository, LifecyclePolicy | replacement of the policy | two resources for one external object |
| `Zone` (`functions/tenancy`; AWS, OCI, secret stores) | node groups, launch templates, roles, access entries, policies | replacement of pools, network policies of other namespaces | replacement without overlap, requirements of two levels |
| `WebAccess` (`functions/networking`), `WebApp`, `CronJob` (`functions/workload`) | Istio and Kubernetes objects | pure construction | none across passes |
| Tags and labels, `functions/common/base/tag.go` | a process-wide cache of kinds | injection into every resource | filled by concurrent calls in any order, limit of tags |
| `compositions/`, `helm/`, scripts, CI | declarations | validation rules of the XRDs | a rule that looks at two versions of a composite |

Components interact through the composed resources (one composite's Role is
another's requirement), through required resources (Environment, Namespace,
Zone, VPC, KMS keys, other composites) and through Usages, with which one
composite keeps another from being deleted.

What makes a component correct: a resource is created only after what it needs;
nothing live is deleted by a pass that still wants it; replacements end, in the
right order; credentials belong to what they open; a password is rotated once;
and, once users and faults pause, everything settles.

## 2. The modules

| Module | Models | Source |
|---|---|---|
| `Composition` | one composite under the framework, the controller and the providers around it | `functions/common/base/fn.go` |
| `SqlKinds`, `MCSqlKinds` | parameters of `Composition` for the four SQL kinds | `functions/database/service/{pg,mariadb}_{user,database}.go`, `database/group.go` |
| `RdsInstance`, `MCRdsInstance` | parameters of `Composition` for the RDS instances | `functions/database/service/{instance_common,pg_instance,mariadb_instance}.go` |
| `Repository`, `MCRepository` | parameters of `Composition` for ECR repositories | `functions/artifact/service/repository.go` |
| `Services` | what the kinds of the next five rows share: manifests, statuses, the Secrets that carry a credential | `functions/queue/service/kafkauser.go`, `functions/storage/service/s3bucket.go` |
| `Valkey` | parameters of `Composition` for ValkeyInstances | `functions/database/service/valkey_instance.go` |
| `S3Bucket` | ... for S3Buckets | `functions/storage/service/s3bucket.go` |
| `Kafka` | ... for MSK, Topics and KafkaUsers | `functions/queue/service/{msk,topic,kafkauser}.go` |
| `RabbitMQ` | ... for RabbitMQBrokers | `functions/mq/service/rabbitmq_broker.go` |
| `Zone`, `MCZone` | ... for Zones, on AWS and on OCI, and what their policies admit | `functions/tenancy/service/*.go` |
| `MCServices` | the kinds of `Valkey`, `S3Bucket`, `Kafka` and `RabbitMQ` in one run | |
| `Requirements` | the calls of one pass that resolve required resources | `fn.go`, `util.go`, `database/group.go` |
| `ResourceTags`, `MCResourceTags` | the tags of every composed resource, and the cache of kinds that take tags under concurrent callers | `functions/common/base/{tag,fn,util}.go` |
| `Decision` | abstract: a question is decided once and everyone who asks is told so; `ResourceTags` implements it | |
| `Exclusive` | abstract: a place that one holder has at a time; `RdsInstance` implements it | |
| `X_proofs` | theorems about the module `X`: `Composition`, `SqlKinds`, `Repository`, `RdsInstance`, `Zone`, `Requirements`, `ResourceTags` | |
| `Services_proofs` | theorems about `Valkey`, `Kafka` and `RabbitMQ` | |

`Composition` is extended by every kind; `Services` extends it and is extended
by the five kinds that put a cloud service and its credentials together.
`Requirements` and `ResourceTags` stand alone: they are what happens inside one
call of the function, which `Composition` takes as one step.

### Composition

`Composition` is generic as the Go framework is: a Go service implements
`GroupService`; a TLA+ kind module supplies the constant operators `Generate`
(the `ResourceHandler`), `Sequence` (`GetSequence`), `IsReady`
(`GetReadyStatus` with its default) and, for the world outside, `Reports`,
`Degrades`, `Removable` and `Edits`.

| TLA+ | Code |
|---|---|
| `Reconcile` / `PassOn` | a pass reads `composite` and `world` and calls `RunFunction`; `Fatal` ends it with nothing changed |
| `Sequenced`, `GateOpen`, `StepReady`, `ReadyIn` | `addDesiredComposedResources`, `addDesiredSequenceResources`, `addDesiredResource` |
| `GarbageCollect`, `Apply` | the controller's calls, one action each, collections first |
| `Report`, `Remove`, `Degrade` | a provider reports, finishes a deletion, or a fault happens |
| `Edit`, `Lose`, `Abort` | a user edits, someone deletes a resource, a call fails or the controller restarts in mid-pass |

`RunFunction` has no state and its inputs are fixed when the pass reads them, so
reading and calling are one step, and everything that can go stale goes stale
between that step and the calls: every other action may happen in between. The
variable `run` holds what the pass read, generated and wants; `wasReady` is a
history variable for the properties.

Abstractions. Calls that would change nothing of what was read are left out. A
resource that is being deleted still counts as ready, as in the code. The
deletion of the composite and the order that Usages impose on it, status
(`addStatus`) and `SkipGeneration` are not modelled; tags (`injectZone`) are in
`ResourceTags`.
A manifest has the fields that some rule depends on; a status what a provider
says of them.

### Kinds

`SqlKinds`: names are tuples of the literal part and what is interpolated;
only the Role's manifest depends on what was observed (its rotation trigger).
All that a composite requires is one flag, ready or not.

`RdsInstance`: the Instance's manifest keeps version, group, snapshot and
protection; the ExternalSecret's the ARN of the master-user secret it copies.
RDS makes such a secret for every Instance it makes, so that two Instances never
have the same, not even from one snapshot (`MasterUserSecret`). A version is its
own parameter group family, but for those that have none (`Major`: MariaDB
versions of one part). `Fatal` covers
missing required resources, both kinds of parameters at once, and the `nil`
ExternalSecret that the framework fails to convert. `applyImmediately`, the
availability zone and the name of the final snapshot are left out. The four
resources that every instance has are one name, `Support`, in the runs.

`Repository`: the composed LifecyclePolicy is named by (the hash of) its text.
That two of them share one ECR policy is expressed by `OnePolicy`: there are
never two at once. Encryption is left out.

### Services

A handler that finds its required resources but not their statuses (the VPC
without an id, a cluster without an issuer) composes with empty fields. `known`
says in the composite whether the statuses are there, and a manifest says
whether it was composed with them: the provider of one that was not cannot make
anything of it. The rest of a manifest is the one value that something depends
on, and a status adds the one value that something reads (`said`).

| TLA+ | Code |
|---|---|
| `Said`, `ManifestValue` | what a handler reads of an observed resource: status, annotation, connection details, `data` of a Secret |
| `generatePassword` | 32 random characters: all that matters is that nothing there is has them |
| `Provided` | a resource is ready once what it refers to is |
| `None`, `Undecodable` in the manifest of a Secret | no password in its data, or data that cannot be decoded: `resolvePassword` makes up a new one, or fails |
| `SecretReports` | the Secrets Manager version copies the Kubernetes Secret that its provider finds, and does so again when that changes |

`Valkey`: the status of the replication group says which version, parameter
group and token are in use. `S3Bucket`: the access key is new whenever it is
made again. `Kafka`: a SecretVersion made by its provider is never written
again (its management policies are Observe, Create and Delete), so a new
password must come with a new version. `RabbitMQ`: the broker takes its
password when it is made and its configuration at any time; a revision of a
configuration stands for its text.

Both handlers that read a password back have the branches for a Secret that holds
none or cannot be decoded. Nothing in the runs leads there: what a Secret holds is
what the controller applied last, and nobody edits composed resources by hand.

### Zone

Names are kept by what they are of and which namespace or pool they belong to.
Which namespaces carry the zone's label is read from the composed ones, whether
the Zone still names them or not (`Labelled`), as the function does by requiring
namespaces by label. An Ingress or HTTPRoute is abstracted to whether its
namespace is `exposed`: how classes, gateways and load balancers lead to subnets
is not modelled. The apps namespace that the Environment asks for comes before
one of that name among the user's (`Named`). `Admitted` and `Isolated` say what
the Kyverno policies that are there make of a pod with any node selector, and on
which nodes it may run.

### ResourceTags and Decision

Each caller is a goroutine that serves a composite. `Load`, `Do`, `Recheck`,
`Resolve` and `Finish` are `supportsField` cut where it touches what is shared:
the cache (`sync.Map`) and the flight of a kind (`singleflight`, external).
`Send` is the rest of `injectZone`: an object is sent with its tags (`TagsOf`),
or as it is (`Untagged`: its kind takes none, or what it has for tags is no
map), or fails the function (`Fatal`: more tags than the limit). A tag is
represented by its key and by the source it comes from. An object is built by
the handler (`typed`), or kept as it was observed: with tags, with tags that are
no map, or without (`kept`, `mangled`, `stripped`).

`Decision` says what the callers are promised. The mapping takes the cache for
what is decided, the kind of a caller's object for what it asks, and its answer,
from the moment it has it until the object is sent, for what it has been told:

    decided <- cache,
    asking <- [c \in Caller |-> IF pc[c] = "idle" THEN None ELSE object[c].kind],
    told <- [c \in Caller |-> IF pc[c] = "answered" THEN answer[c] ELSE None]

`Exclusive` has one variable, who holds the place. `RdsInstance` maps the snapshot
of the Instance that exists to it; one that is on its way out counts as being
there.

### Requirements

Crossplane calls the function until it requires what it did before, and seeds
the first call of a pass with the selectors recorded last. The actions `Begin`,
`CallAgain`, `Accept`, `Fail` and `GiveUp` are that loop; the Environment, the
Namespace's label, VPCs, keys, Zones and the apiVersion that a release of the
function asks for change between any two calls. The loop belongs to Crossplane
and is modelled from what the comment at `fn.go:113` and the function's use of
it say; that selectors are recorded when an answer is accepted is an
assumption. Cluster-scoped composites without requirements and the Zones that
`SkipGeneration` leaves alone do not take part.

## 3. The runs

| Run | Question | Bounds |
|---|---|---|
| `rollout` | Do the SQL kinds roll out in order, keep what they have, settle, and rotate a password exactly once? | one list entry, one disruption of any kind at any moment, all four kinds |
| `rds_settles` | Does every rebuild and every hand-over between groups end, and does no late pass delete the group in use? | two versions, two snapshots, two disruptions |
| `rds_safety` | Is the group in use kept, is an Instance rebuilt and never converted, and does no secret outlive a rebuild? | the same, all edits the XRD admits, any resource may be deleted |
| `repository` | Is there one lifecycle policy at a time, and in the end the right one? | three policies, three disruptions |
| `requirements` | Is an accepted answer complete, from one view, and always reached? | two VPCs, one key, two Zones, five calls, three changes |
| `services` | Do credentials agree wherever they are copied, and does nothing delete what a service uses? | two engine versions, three passwords, one subnet, one ACL, two texts of a configuration, two disruptions |
| `zone` | Do namespaces stay isolated, can nodes join, does everything settle? | one named and one labelled namespace, one pool, two hashes, two templates, two disruptions |
| `tags` | Is a kind decided once, does a tag have its value from the right source, does everyone get on? | three goroutines, one kind, four contexts of tags: in a zone with a workspace or neither, within the limit or one over it |
| `rollout_earlier`, `rollout_unreported`, `rds_protection`, `repository_prefixed` | see Findings | one disruption |

The bounds are enough for the interesting cases to happen. One disruption in
`rollout` already cuts a pass anywhere, regresses any step, deletes any resource
or changes the list, and the longest sequence has six steps of which one or more
are empty when the list is. Two disruptions in the RDS runs give a rebuild in
the middle of a change of version and the reverse. Three in `repository` give
two replacements overlapping with a lost resource. Two in `services` change the
version and lose the Secret, the key or the service in the middle of it, or cut
a pass in between; three passwords are one more than any two losses can use up
while the old ones are still in some copy. Two in `zone` take a namespace out of
the Zone while its label or a pool changes; both clouds and all four forms of
what is known are starting points. Three goroutines in `tags` are a leader, one
that waits and one that comes between the leader's end and its own look into the
cache; kinds do not interact, so one is enough, and its keys are given by the
handler alone, by each two sources next to each other and by all at once. Two
ARNs are enough in the RDS runs: an Instance takes one that nothing names. Three
changes in `requirements` exceed what a pass of five calls can spare, so that
`GiveUp` happens, and two VPCs let an Environment name one, leave it and return.

Some of the runs leave out what the code does not repair, and each such
restriction is a behaviour of the code that is listed as a hazard: `rds_settles`
does not go back to a parameter group that was given up, has parameters only
together with a version, and nobody else deletes groups (`MCEdits`,
`MCSettlingStart`, `MCLosable`): in those cases a group that an Instance refers
to is being deleted, or dropped as soon as it is made, and nothing settles.
`rds_safety` has none of these restrictions. `services` does not go back to a
parameter group or a configuration that was given up (`Rank`): on the way from A
to B and back to A the service still reports A, so that A is taken for the one
in use before it is, and B is dropped while the service is moving to it. Neither there does anyone delete the Secret of a
broker, whose new password the broker would never learn, or what another
resource is made in. `zone` loses launch templates and node groups, not policies
or roles. In both, what is known of required resources stays so.

To stay within minutes the `MC` modules leave out names that a handler treats
alike and nothing depends on (`LeftOut`), one of each sort being kept: in
`services` the extra settings of a bucket and the rules of a security group, in
`zone` roles, bindings, network policies and the project.

Only `Requirements` starts from a cluster where everything exists: the
disruptions take it from there.

### Fairness

`Fairness` of `Composition` is weak fairness of a pass beginning, of each of its
calls, and of each provider reporting on and removing its resource. Crossplane
requeues every composite after a poll interval and after errors, and so do the
providers. Nothing is assumed of edits, faults, foreign deletions or aborted
passes, except that their number is bounded in each run. In `Requirements` the
calls of the pass are fair and no change is. In `ResourceTags` each goroutine
that can go on does, as the Go scheduler has it, and none need start another
object. `EventuallySettled` and
`PolicyOfTheRules` assume in addition that the function stops failing: every
handler answers Fatal as long as what it requires is missing. The liveness of
`services` and `zone` assumes too that what is required gets its status
(`known`), without which resources are composed with empty fields for good.

### What the runs show

* A resource of a step is created only after everything its pass generated for
  the step before has been ready, however old the reading
  (`PreviousStepWasReady`).
* No pass deletes what it generated, though an earlier step has regressed
  (`GeneratedIsKept`): the gate withholds what does not exist yet, no more.
* Once things are quiet, the composed resources are those generated, all ready
  (`EventuallySettled`); empty steps block nothing.
* A rotation trigger is never changed or taken back (`RotatedOnce`), and a
  restored instance's password is in fact rotated (`RotatedAfterRestore`). Only a
  first restore is modelled: after it the trigger is kept (`pg_user.go:144`), so
  that a second one rotates nothing.
* No rebuild from another snapshot leaves an ExternalSecret with the secret of the
  old Instance behind. An ExternalSecret may come to name the secret of an
  Instance that is gone, until the passes after it have repaired it; but only by a
  call of a pass that read an Instance of the very snapshot the new one is made
  from (`SecretLeavesWithSnapshot`). Where nobody else deletes the Instance and no
  edit returns to an earlier snapshot it never does: that is the theorem
  `SecretFollowsInstance`. A group is not
  collected while the Instance is known to use it (`GroupInUseIsKept`).
* An answer with requirements only is never taken for the final one
  (`BareIsNeverAccepted`); what is accepted comes from one Environment and one
  Namespace (`AnswerIsConsistent`); a pass gives up only if the cluster changed
  about as often as it may call (`GivesUpOnlyAmidChanges`); no old seed keeps
  the composite from being composed (`EventuallyComposed`).
* Two lifecycle policies never exist together, one that is on its way out included
  (`OnePolicy`), and the last rules come into force (`PolicyOfTheRules`).
* An Instance is never taken to another snapshot in place, however late a pass is
  (`RebuiltFromScratch`, a refinement of `Exclusive`).
* The token of a replication group and the access key of a bucket reach Secrets
  Manager after any loss or replacement (`ValkeyTokenArrives`, `S3KeyArrives`),
  though the S3 version is composed before there is anything to copy; the broker
  comes to run the text that its composite gives (`ConfigurationArrives`).
* A KafkaUser's Secret and its SecretVersion never disagree, though the version
  is never written twice: losing the Secret takes the version with it
  (`KafkaPasswordAgrees`). A broker's Secret never departs from the password the
  broker was made with (`BrokerPasswordAgrees`).
* No call of the controller begins to delete the parameter group or the
  configuration that is in use at that moment, however old its reading
  (`ParameterGroupInUseStays`, `ValkeyGroupInUseStays`,
  `ConfigurationInUseStays`), as long as versions only go forward: the way
  back is below.
* A namespace the Zone has made stays closed to other zones' nodes from the
  moment its policies are there until its deletion begins, whatever becomes of
  the Zone (`NamespaceStaysIsolated`), the apps namespace apart, which has none.
  A node group is there only after a role, its attachments and an access entry
  for its nodes have been (`NodesCanJoin`). The services and the Zone settle
  (`EventuallySettledOnceKnown`).
* A kind takes tags or does not, for all callers and for good (`OneAnswer`,
  `KeepsThePromise`); no caller waits forever (`EveryCallReturns`); where an
  object is tagged, a tag has its value from its highest source
  (`TagsByPriority`). That every object with the field is tagged does not hold:
  see below.

### Findings

1. `rollout_earlier`: `functions/common/README.md:26` promises that later steps
   wait for all earlier ones; the gate (`fn.go:251`) looks at the step before
   only, and a step that generated nothing counts as ready. A
   PostgreSQLDatabase without extensions has its `grant-usage` created before
   its database is ready.
2. `rollout_unreported`: `functions/common/README.md:129` promises that step N
   waits until step N-1 is ready; a resource outside upbound.io that has no
   conditions counts as ready (`util.go:334`), so a Grant is created before
   provider-sql has reported on the Role.
3. `rds_protection`: the XRD says that the snapshot of a protected instance
   cannot be changed; its rule looks at the new object only. One edit that lifts
   the protection and changes the snapshot makes the function drop an Instance
   that is still protected, and the lifted protection never reaches it.
4. `repository_prefixed`: a Repository called `lifecycle-policy-...` takes its
   own ECR repository for a stale policy (`repository.go:173`) and never gets a
   lifecycle policy.

Two more disagree with what the repository says, and are left out of the models'
bounds or properties rather than made runs of their own. On the way A, B, A a pass
that read the broker at A collects the configuration of B after the broker has moved
to it, although the comment at `rabbitmq_broker.go:155` keeps configurations "while
the broker is still switching". And whether a kind takes tags is cached from the
first object of the kind (`tag.go:39`): if that is one kept as it was observed, and
without tags, all others of its kind go untagged, although
`functions/common/README.md:172` promises tags on every resource with the field.

Met while modelling, without a sentence of the repository that says otherwise, and
therefore not runs: the way back (A, B, A) for the parameter groups of RDS and
Valkey; an Instance that someone deletes between the reading and the calls of a
pass, which makes it anew beside an ExternalSecret that still names the old secret
(`instance_common.go:232`); a broker's password after its Secret is lost
(`rabbitmq_broker.go:235`); a KafkaUser's Secret emptied by hand, which gets a
password that its version, never written again, does not follow
(`kafkauser.go:92`); a Zone whose launch
template is lost drops the node group made from it until there is another
(`zone_aws.go:276`); a namespace and its policies are created in one step, so
that the namespace is open for a moment at first; a namespace that the user named
`<zone>-apps` loses its policies when the Environment comes to ask for an apps
namespace (`zone.go:287`); an Ingress path without a
Service fails the whole Zone on AWS but not on OCI (`zone_aws.go:585`).

## 4. The proofs

| Theorem | Says | Assumes |
|---|---|---|
| `TypeCorrect` | `Spec => []TypeOK` | `HandlerTypes`: handlers answer with maps over `Name`, providers with statuses |
| `SequenceIsRespected` | `Spec => []PreviousStepWasReady` | nothing but the named assumptions on constants |
| `GeneratedResourcesAreKept` | `Spec => GeneratedIsKept` | the same |
| `PasswordIsRotatedOnce` | `Spec => RotatedOnce` | `SqlParameters`: the constants of `Composition` are those of `SqlKinds` |
| `OnePolicyAtATime` | `Spec => []OnePolicy` | `RepositoryParameters`: the handler is that of `Repository` |
| `InstancesAreRebuilt` | `Spec => RebuiltFromScratch`, a refinement | `RdsParameters`: the constants of `Composition` are those of `RdsInstance` |
| `RdsTypeCorrect` | `Spec => []TypeOK` | `RdsParameters` |
| `SecretsLeaveWithSnapshot` | `Spec => SecretLeavesWithSnapshot` | `RdsParameters` |
| `SecretFollowsInstance` | `Spec => []SecretOfTheInstance` | `RdsParameters`, `InstanceIsLeft(rank)`: nobody but the controller deletes the Instance, and edits only go on to other snapshots |
| `GroupInUseStays` | `Spec => []GroupInUseIsKept` | `RdsParameters` |
| `RdsKeepsGroupInUse` | `Spec => ParameterGroupInUseStays` | `RdsParameters`, `RdsAdvances(rank)`: a version is given and edits only raise it |
| `BareAnswersAreDiscarded` | `Spec => []BareIsNeverAccepted` | |
| `AnswersAreConsistent` | `Spec => []AnswerIsConsistent` | |
| `RequirementsTypeCorrect`, `PassesStabilize` | `Spec => []TypeOK`, `Spec => []GivesUpOnlyAmidChanges` | the named assumptions on constants |
| `KafkaPasswordIsOne` | `Spec => []KafkaPasswordAgrees` | `KafkaParameters`: the handler and the providers are those of a KafkaUser |
| `BrokerKeepsItsPassword` | `Spec => []BrokerPasswordAgrees` | `RabbitParameters`: they are those of a RabbitMQBroker, whose Secret nobody else deletes |
| `RabbitKeepsConfigurationInUse` | `Spec => ConfigurationInUseStays` | `RabbitParameters`, `RabbitAdvances(rank)`: edits only raise the version, and a configuration given stays given |
| `ValkeyKeepsGroupInUse` | `Spec => ValkeyGroupInUseStays` | `ValkeyParameters` (those of a ValkeyInstance), `ValkeyAdvances(rank)`: a version is given and edits only raise it |
| `NodesJoin` | `Spec => []NodesCanJoin` | `ZoneParameters`: the handler and the sequence are those of a Zone |
| `NamespacesStayIsolated` | `Spec => NamespaceStaysIsolated` | `ZoneParameters`, `PoliciesAreLeft`: nobody but the controller deletes the policies of namespaces |
| `TagsTypeCorrect`, `OneAnswerPerKind` | `Spec => []TypeOK`, `Spec => []OneAnswer` | |
| `PromiseIsKept` | `Spec => KeepsThePromise`, a refinement | |
| `TagsHavePriority` | `Spec => []TagsByPriority` | the names of the two tags differ (`TagsAssumption`) |

The first three hold for every kind at once, those that are not modelled
included. Every theorem holds for all values of the constants, among them the
bound on disruptions, and also for providers that report in any order or not at
all. That a composed resource has the fields of one needs no hypothesis on the
kind (`FieldsAlways`): the controller makes it so. Each argument about
`Composition` is an invariant of the pass in progress, whose reading may be out
of date:

* `SequenceIsRespected`: `PreviousStepWasReady` speaks of the reading and of
  the history, and is not inductive: that a new pass satisfies it follows from
  `Ready(world) \subseteq wasReady`, which is the strengthening. From then on the
  reading stands still and the history only grows.
* `GeneratedResourcesAreKept`: what is generated and observed is desired
  (`SequencedFacts`), so what a pass has left to collect was not generated
  (`CollectsUnwanted`), and a deletion that begins with a call is one of those
  (`DeletedByPass`).
* `PasswordIsRotatedOnce`: a pass that read a trigger asks for the same one
  (`AsksForSameTrigger`), and as long as a pass has yet to apply the Role, the
  Role that exists is the one it read (`ReadIsCurrent`): nobody else creates it
  or changes its manifest, and if it was deleted meanwhile, a new one has no
  trigger to lose.
* `OnePolicyAtATime`: the policies that exist, together with
  those that the pass has yet to apply, are at most one. A pass creates a policy
  only if it has read no other, and none but the pass creates any.
* `InstancesAreRebuilt`: a pass that asks for the Instance asks for the snapshot
  that the Instance there is has (`RebuildInv`). A pass that read another
  generates no Instance, and while a pass that read one, or none, goes on, no
  Instance can come from anyone else.
* `SecretsLeaveWithSnapshot`: three parts are added to that. What can be read of
  an Instance, and what an ExternalSecret copies, is an ARN (`SecretsHaveArns`);
  a pass asks for an ExternalSecret only along with an Instance that it read,
  and for one that it read only as it was made (`SecretAskedFor`); and one that
  is about to make an Instance where it read none collects the ExternalSecret of
  another first (`SecretMakesWay`), which is where the order of a pass's calls
  is used.
* `SecretFollowsInstance`: with the hypothesis `InstanceIsLeft`, an Instance
  that a pass read and asks for is there as long as the pass goes on, with the
  secret it had (`InstanceStays`): what begins its deletion is a pass that read
  another snapshot than the composite's, and the composite has left that one for
  good (`SnapshotsCome`). So the case that `SecretsLeaveWithSnapshot` leaves
  open does not arise.
* `GroupInUseStays`: a pass that composes groups and leaves one out has read that
  the Instance uses the group of its family, and what it collects only gets less.
* `RdsTypeCorrect`: that a handler answers with what `TypeCorrect` asks is
  itself to be shown. The family comes from the composite or from a status, so
  the types of both are needed for the names of the groups.
* `RdsKeepsGroupInUse`, `ValkeyKeepsGroupInUse`,
  `RabbitKeepsConfigurationInUse`: by the time of a deletion the service may
  have moved on from the reading. It moves only to the group it is asked for
  (`UsesAskedGroup`), which is that of a version the composite has come to
  (`GroupsAsked`). A pass that collects has read that the service uses the group
  of the composite's version, the highest yet; so the service, which is asked
  for no less than it uses, is asked for that version too, and what the pass
  leaves out is neither in use nor asked for (`CollectsUnusedGroups`). Until the
  collections are over no call asks the service for anything
  (`CollectionComesFirst`), so it stays so. For the broker the configuration
  itself is in the place of the version (`ConfigurationInv`). Without the
  hypothesis the properties fail, on the way A, B, A: there are two groups in
  question and only one is reported. An instance whose version is left to AWS
  may be edited to an earlier one, which is the way back again.
* `NodesJoin`: an access entry is there only if a node role has been ready
  (`EntryFollowsRole`), and a node group only if an entry and the role's
  attachments have been (`GroupsFollowEntry`), each by the gate of its step when
  a pass asks for it anew (`CreatedAfter`); from then on `wasReady` only grows.
* `NamespacesStayIsolated`: every pass that reads a namespace in force generates
  its policies, whether the Zone names it or not (`GeneratedPolicies`), so a
  pass collects only policies whose namespace is going (`CollectsOfTheGone`).
  What is in force stays in force but for that (`StaysInForce`), and two
  policies of a namespace are enough to isolate it (`IsolatedByPolicies`).
* `BareAnswersAreDiscarded`: the request of every call but the first delivers
  what the call before required, key by key and at the apiVersion asked for. If
  the answer requires the same again, all is present, and it is not bare.
* `AnswersAreConsistent`: by the same invariant the selectors of an accepted
  answer name what its Environment and Namespace name.
* `PassesStabilize`: the bound on the changes is a bound on the calls so far. From
  the third call on, `seen >= calls - 3`, plus one if the request is out of date
  (`Outdated`) and one if its answer differs from the one before (`Unstable`). A
  change leaves at most one of the two behind and counts for it. A call makes a
  request that is up to date, and the answer to it can differ only if the request
  before was not: what is required depends on the Environment and the Namespace
  alone (`RequiresOfBoth`), which is why the loop cannot chase itself.
* `RequirementsTypeCorrect`: `TypeOK` says nothing of what is delivered; `TypeInv`
  gives what is asked for and what is found under each key its type.
* `KafkaPasswordIsOne`: a pass asks the Secret for the password it has, if it
  has one (`PasswordRead`), and one that is about to make a Secret first
  collects a version with another password (`VersionMakesWay`). A version takes
  its password from the Secret there is at that moment, and never again.
* `BrokerKeepsItsPassword`: the Secret is asked for by every pass, so none
  collects it (`CredentialsStay`) or gives it another password, if it has one
  (`CredentialsRead`); a broker that has a password was made when there was a
  Secret (`BrokerHasPassword`), so that no Secret is made anew beside it.
* `OneAnswerPerKind`, `PromiseIsKept`: who leads has the flight of its kind, so
  there is one leader for each (`LeaderFlies`); a leader that resolves has found
  nothing stored (`ResolvesOnce`, which is what the second look into the cache
  is for); and who has an answer has the one that is stored
  (`AnswersAreStored`). Of the steps, `Call`, `Resolve`, `Load` or `Finish`, and
  `Send` are `Ask`, `Decide`, `Tell` and `Leave` of `Decision`; the others
  change nothing it sees.
* `TagsHavePriority`: what is sent is what `injectZone` makes of the context,
  which never changes (`SentInjected`); of that, each copy over another is
  followed from `getObjectTagsLabels` up (`ObjectTags`, `ContextTags`,
  `InjectedTags`).

`RebuildInv`, `SecretInv`, `LeftInv` (on the instance of `rds_safety` with a third snapshot,
under its hypotheses),
`GroupInv`, `TagsInv`, `ValkeyInv`, `ConfigurationInv`, the invariants of
`Zone_proofs` and, on the instance of `rds_settles` with a version always given,
`InUseInv` have also been checked by TLC.

Every safety property that a passing run checks is also a theorem. Left to TLC
is what holds under fairness only, which is beyond the prover:
`EventuallySettled`, `EventuallySettledOnceKnown`, `EventuallyComposed`,
`PolicyOfTheRules`, `RotatedAfterRestore`, `ValkeyTokenArrives`, `S3KeyArrives`,
`ConfigurationArrives` and `EveryCallReturns`. What the "violation" runs
check is refuted, and so not proved.

## 5. Not modelled

* Deletion of a composite, and the order in which Usages let its resources go;
  two composites that use each other (a user and its database) are each other's
  requirement, which is one flag in the models.
* `SkipGeneration` (the infralib Zone is left as it is) and `addStatus`, which
  copies what is observed into the composite; nothing modelled reads it but the
  `known` of other composites.
* `applyImmediately`, the final snapshot's name and the force-sync annotation of
  the RDS instances, the encryption of a Repository, and the optional KMS keys of
  all kinds as fields of what is composed: `Requirements` has the keys, as far as
  what is fetched when.
* The texts: policies, Kyverno rules (what they admit is in `Zone`), IAM
  documents, lifecycle rules, hashes and names, labels.
* How an Ingress, an HTTPRoute or a Gateway leads to the subnets its traffic comes
  from: a chain of lookups within one pass, abstracted to `exposed`.
* `WebAccess`, `WebApp` and `CronJob` are one pass of construction with nothing
  carried from pass to pass; what `Composition_proofs` says of any handler holds
  for them.
* The custom set, the main programs, the scripts, the chart and the generated code
  have no behaviour of the control loop.
