------------------------------- MODULE MCServices ------------------------------
(***************************************************************************)
(* Composition for the service kinds, on small instances: which kind a     *)
(* composite is of is settled as it is submitted.                          *)
(***************************************************************************)
EXTENDS Valkey, S3Bucket, Kafka, RabbitMQ

\* Of names that a handler treats alike and nothing depends on, one is kept.
LeftOut ==
  {Ownership, PublicAccess, Encryption, IamRole, RoleAttachment}
    \cup {<<"sg-ingress">>, <<"sg-console-ingress">>, <<"sg-mgmt-ingress">>, <<"sg-egress">>}
    \cup {SecretPolicy, ScramAssociation, ConfigSecret}
MCName ==
  (SecretName \cup ValkeyName \cup S3Name \cup KafkaName \cup RabbitName) \ LeftOut

MCComposite ==
  ValkeyComposite \cup S3Composite \cup MskComposite \cup TopicComposite
    \cup KafkaUserComposite \cup RabbitComposite

\* What the manifests and the statuses above say.
MCValue ==
  {"named", "default", "bucket", "Enabled", "Suspended", "brokers"} \cup Data
    \cup [version : Family \cup {None}, group : Family \cup {"named", "default", None}]
    \cup [version : Family, group : Family \cup {"named", "default", None},
          token : Password]
    \cup [configuration : EngineVersion \cup {None}, revision : Data \cup {None}]
    \cup [configuration : EngineVersion \cup {None}, revision : Data \cup {None},
          password : Password]

\* What a newly submitted composite says; the rest comes by edits.
MCStart ==
  {c \in ValkeyComposite : c.usable /\ ~c.named /\ c.subnets = Subnet
                             /\ c.version # None /\ c.known}
    \cup {c \in S3Composite : c.usable /\ ~c.account /\ c.versioning}
    \cup {c \in MskComposite \cup TopicComposite : c.usable}
    \cup {c \in KafkaUserComposite : c.usable /\ c.acls = {}}
    \cup {c \in RabbitComposite : c.usable /\ c.known}

\* The handler by kind, without what is left out.
MCGenerate(c, observed) ==
  LET generated ==
        CASE c.kind = "Valkey" -> ValkeyGenerate(c, observed)
          [] c.kind = "S3Bucket" -> S3Generate(c, observed)
          [] c.kind = "MSK" -> MskGenerate(c, observed)
          [] c.kind = "Topic" -> TopicGenerate(c, observed)
          [] c.kind = "KafkaUser" -> KafkaUserGenerate(c, observed)
          [] c.kind = "RabbitMQBroker" -> RabbitGenerate(c, observed)
  IN IF generated = Fatal THEN Fatal
     ELSE [n \in DOMAIN generated \cap MCName |-> generated[n]]

MCSequence(c) ==
  CASE c.kind = "Valkey" -> ValkeySequence(c)
    [] c.kind = "S3Bucket" -> S3Sequence(c)
    [] c.kind = "RabbitMQBroker" -> RabbitSequence(c)
    [] OTHER -> KafkaSequence(c)

\* The Secrets, the ServiceAccount and the ProviderConfig have no conditions.
MCIsReady(n, resource) ==
  \/ resource.status.phase = "up"
  \/ n \in {Credentials, K8sSecret, ServiceAccount, ConfigSecret, ClusterProviderConfig}

MCReports(n, observed) ==
  CASE n \in SecretName -> SecretReports(n, observed)
    [] n \in ValkeyName -> ValkeyReports(n, observed)
    [] n \in S3Name -> S3Reports(n, observed)
    [] n \in KafkaName -> KafkaReports(n, observed)
    [] n \in RabbitName -> RabbitReports(n, observed)

MCDegrades(n, observed) ==
  IF n \in KafkaName THEN KafkaDegrades(n, observed) ELSE ServiceDegrades(n, observed)

MCRemovable(n, observed) ==
  CASE n \in SecretName -> TRUE
    [] n \in ValkeyName -> ValkeyRemovable(n, observed)
    [] n \in S3Name -> S3Removable(n, observed)
    [] n \in KafkaName -> KafkaRemovable(n, observed)
    [] n \in RabbitName -> RabbitRemovable(n, observed)

\* Edits that do not return to a parameter group or a configuration that was
\* given up.  A service on its way to another reports the one it still has, so
\* that a return drops the one it is about to use; and one that is deleted
\* while the service returns to it goes on being deleted for good.  What is
\* known of the required resources stays so.
Rank(version) == CASE version = None -> 0 [] version \in {"f1", "e1"} -> 1 [] OTHER -> 2
MCEdits(c) ==
  {e \in CASE c.kind = "Valkey" -> ValkeyEdits(c)
           [] c.kind = "S3Bucket" -> S3Edits(c)
           [] c.kind = "RabbitMQBroker" -> RabbitEdits(c)
           [] OTHER -> KafkaEdits(c) :
     /\ c.known => e.known
     /\ c.kind \in {"Valkey", "RabbitMQBroker"} => Rank(e.version) >= Rank(c.version)
     /\ c.kind = "Valkey" /\ e.params => c.params}

\* Nobody deletes what something else is made in or attached to, and nobody
\* the Secret of a broker.
MCLosable == {Rg, SecretVersion, AccessKey, K8sSecret, KafkaVersion, MskCluster, KafkaTopic}
================================================================================
