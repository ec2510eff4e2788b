--------------------------------- MODULE Kafka ---------------------------------
(***************************************************************************)
(* MSK, Topic and KafkaUser (functions/queue/service): the parameters they *)
(* give Composition.  An MSK composite observes a cluster and makes the    *)
(* ProviderConfig that the topics and the access rules of users go         *)
(* through.  A KafkaUser makes up a password, keeps it in a Secret and     *)
(* hands it to the cluster through Secrets Manager.                        *)
(***************************************************************************)
EXTENDS Services

CONSTANT Acl    \* consumer groups and topics a user may be given access to

MskCluster == <<"msk-cluster">>
ConfigSecret == <<"config-secret">>
ClusterProviderConfig == <<"cluster-provider-config">>
MskName == {MskCluster, ConfigSecret, ClusterProviderConfig}

KafkaTopic == <<"topic">>

K8sSecret == <<"k8s-secret">>
AwsSecret == <<"aws-secret">>
KafkaVersion == <<"secret-version">>
SecretPolicy == <<"secret-policy">>
ScramAssociation == <<"scram-association">>
AclName(acl) == <<"acl", acl>>
Acls == {AclName(a) : a \in Acl}
KafkaUserName ==
  {K8sSecret, AwsSecret, KafkaVersion, SecretPolicy, ScramAssociation} \cup Acls

KafkaName == MskName \cup {KafkaTopic} \cup KafkaUserName

\* Of an MSK composite, known says whether AWS reports brokers of the cluster,
\* of the others, whether the MSK composite they go to has its status.  usable
\* says whether the required resources are there and the ARN is one.
MskComposite == [kind : {"MSK"}, known : BOOLEAN, usable : BOOLEAN]
TopicComposite == [kind : {"Topic"}, known : BOOLEAN, usable : BOOLEAN]
KafkaUserComposite ==
  [kind : {"KafkaUser"}, acls : SUBSET Acl, known : BOOLEAN, usable : BOOLEAN]

--------------------------------------------------------------------------------
(***************************************************************************)
(* The handlers.                                                           *)
(***************************************************************************)

\* The cluster is only observed; the Secret with its brokers and the
\* ProviderConfig are asked for while it reports any.
MskGenerate(c, observed) ==
  IF ~c.usable THEN Fatal
  ELSE [n \in {MskCluster} \cup {m \in {ConfigSecret, ClusterProviderConfig} :
                                   Said(MskCluster, observed) # None} |->
          Asked(c, IF n = ConfigSecret THEN Said(MskCluster, observed) ELSE None)]

\* GenerateTopicObjects: fails until the MSK composite has a ProviderConfig.
TopicGenerate(c, observed) ==
  IF ~(c.usable /\ c.known) THEN Fatal ELSE [n \in {KafkaTopic} |-> Asked(c, None)]

\* resolvePassword: the one in the Secret, or a new one where there is no Secret
\* or no password in it.
resolvePassword(observed) ==
  CASE ManifestValue(K8sSecret, observed) = None -> generatePassword(observed)
    [] ManifestValue(K8sSecret, observed) = Undecodable -> Fatal
    [] OTHER -> ManifestValue(K8sSecret, observed)

\* A handler that asks for everything at once.
AllAtOnce(c, observed) ==
  {AwsSecret, KafkaVersion, SecretPolicy, ScramAssociation}
    \cup {AclName(a) : a \in c.acls}

\* What is asked for besides the Secret: nothing as long as that is not there.
BesidesTheSecret(c, observed) ==
  IF K8sSecret \notin DOMAIN observed THEN {}
  ELSE {AwsSecret, KafkaVersion, SecretPolicy, ScramAssociation}
         \cup {AclName(a) : a \in c.acls}

KafkaUserGenerate(c, observed) ==
  IF ~c.usable \/ resolvePassword(observed) = Fatal THEN Fatal
  ELSE [n \in {K8sSecret} \cup BesidesTheSecret(c, observed) |->
          Asked(c, IF n = K8sSecret THEN resolvePassword(observed) ELSE None)]

\* GetSequence: the others have none.
KafkaSequence(c) ==
  IF c.kind = "KafkaUser"
    THEN <<{K8sSecret}, {AwsSecret}, {KafkaVersion}, {SecretPolicy},
           {ScramAssociation}, Acls>>
    ELSE << >>

--------------------------------------------------------------------------------
(***************************************************************************)
(* AWS and its providers, and the user.                                    *)
(***************************************************************************)

\* A version made by its provider is never written again: its management
\* policies are Observe, Create and Delete.
KafkaVersionReports(observed) ==
  LET said == Said(KafkaVersion, observed)
  IN CASE said # None -> Provided(KafkaVersion, observed, {AwsSecret}, said)
       [] said = None /\ K8sSecret \in DOMAIN observed ->
            Provided(KafkaVersion, observed, {AwsSecret}, ManifestValue(K8sSecret, observed))
       [] OTHER -> {[observed[KafkaVersion].status EXCEPT !.phase = "down"]}

KafkaReports(n, observed) ==
  CASE n = MskCluster -> Provided(n, observed, {}, "brokers")
    [] n \in {ConfigSecret, ClusterProviderConfig, K8sSecret} -> {}
    [] n = KafkaVersion -> KafkaVersionReports(observed)
    [] n \in {SecretPolicy, ScramAssociation} -> Provided(n, observed, {AwsSecret}, None)
    [] OTHER -> Provided(n, observed, {}, None)

\* A cluster may stop reporting its brokers.
KafkaDegrades(n, observed) ==
  ServiceDegrades(n, observed)
    \cup {[observed[n].status EXCEPT !.said = None] :
            x \in {MskCluster} \cap {n}}

KafkaRemovable(n, observed) == TRUE

\* One field changes; an MSK composite's own status is never taken back.
KafkaEdits(c) ==
  {e \in MskComposite \cup TopicComposite \cup KafkaUserComposite :
     /\ e.kind = c.kind
     /\ \E f \in DOMAIN c : e[f] # c[f] /\ \A g \in DOMAIN c \ {f} : e[g] = c[g]}

\* Composition for KafkaUser: assumed by the theorems of Services_proofs.
KafkaParameters ==
  /\ NewStatus = ServiceNewStatus
  /\ \A c : \A observed : Generate(c, observed) = KafkaUserGenerate(c, observed)
  /\ \A n \in KafkaUserName : \A observed :
       /\ Reports(n, observed) = KafkaReports(n, observed)
       /\ Degrades(n, observed) = KafkaDegrades(n, observed)

--------------------------------------------------------------------------------
(***************************************************************************)
(* Properties.                                                             *)
(***************************************************************************)

\* Where a SecretVersion is not on its way out and there is a Secret, both
\* hold the same password, though the version is never written twice: a Secret
\* that is lost and made anew takes the version with it (kafkauser.go, generate).
KafkaPasswordAgrees ==
  (/\ K8sSecret \in DOMAIN world
   /\ KafkaVersion \in DOMAIN world
   /\ ~world[KafkaVersion].deleting
   /\ Said(KafkaVersion, world) # None)
    => Said(KafkaVersion, world) = ManifestValue(K8sSecret, world)
================================================================================
