-------------------------------- MODULE RabbitMQ -------------------------------
(***************************************************************************)
(* RabbitMQBroker (functions/mq/service/rabbitmq_broker.go): the           *)
(* parameters it gives Composition.  A broker in a security group, with a  *)
(* password that is fixed when it is made, and with a Configuration of its *)
(* own for every engine version; the old one is kept until the broker      *)
(* reports that it has moved to the new one.                               *)
(***************************************************************************)
EXTENDS Services

CONSTANTS
  EngineVersion,   \* engine versions
  Data             \* the texts a configuration may have

ASSUME EngineVersionAssumption == None \notin EngineVersion

Broker == <<"broker">>
Configuration(version) == <<"config", version>>
Configurations == {Configuration(v) : v \in EngineVersion}

\* buildSecurityGroup.
BrokerSecurity ==
  {<<"sg">>, <<"sg-ingress">>, <<"sg-console-ingress">>, <<"sg-mgmt-ingress">>,
   <<"sg-egress">>}

RabbitName == {Broker} \cup Configurations \cup BrokerSecurity

\* data is None when no configuration is given; usable says whether the
\* required resources are there.
RabbitComposite ==
  [kind : {"RabbitMQBroker"}, version : EngineVersion, data : Data \cup {None},
   public : BOOLEAN, known : BOOLEAN, usable : BOOLEAN]

--------------------------------------------------------------------------------
(***************************************************************************)
(* The handler.                                                            *)
(***************************************************************************)

\* What the broker reports of its configuration.
ConfigurationInUse(observed) ==
  IF Said(Broker, observed) = None THEN None ELSE Said(Broker, observed).configuration

\* brokerSwitchedToConfiguration: the external name of the Configuration is the
\* id that the broker reports.
brokerSwitchedToConfiguration(version, observed) ==
  /\ Said(Configuration(version), observed) # None
  /\ ConfigurationInUse(observed) = version

\* A handler that drops the old configurations at once.
NoStaleConfigurations(version, observed) == {}

keepStaleConfigurations(version, observed) ==
  IF brokerSwitchedToConfiguration(version, observed) THEN {}
  ELSE (Configurations \cap DOMAIN observed) \ {Configuration(version)}

\* A password that is made up every time.
NewBrokerPassword(observed) == generatePassword(observed)

\* resolvePassword: the one in the Secret, or a new one where there is no Secret
\* or no password in it.
BrokerPassword(observed) ==
  CASE ManifestValue(Credentials, observed) = None -> generatePassword(observed)
    [] ManifestValue(Credentials, observed) = Undecodable -> Fatal
    [] OTHER -> ManifestValue(Credentials, observed)

\* A broker that keeps the revision it has been given first.
FirstRevision(c, observed) ==
  IF Broker \in DOMAIN observed /\ ManifestValue(Broker, observed).revision # None
    THEN ManifestValue(Broker, observed).revision
    ELSE Said(Configuration(c.version), observed)

\* observedConfigurationRevision: the latest of the current configuration, or
\* none before it has one.  A revision stands for its text.
observedConfigurationRevision(c, observed) == Said(Configuration(c.version), observed)

\* buildBroker.
buildBroker(c, observed) ==
  [configuration |-> IF c.data = None THEN None ELSE c.version,
   revision |-> IF c.data = None THEN None ELSE observedConfigurationRevision(c, observed)]

\* generate.  A configuration that is kept for the time being keeps its text.
RabbitGenerate(c, observed) ==
  LET configurations ==
        IF c.data = None THEN {}
        ELSE {Configuration(c.version)} \cup keepStaleConfigurations(c.version, observed)
      security == IF c.public THEN {} ELSE BrokerSecurity
  IN IF ~c.usable \/ BrokerPassword(observed) = Fatal THEN Fatal
     ELSE [n \in {Broker, Credentials} \cup configurations \cup security |->
             CASE n = Broker -> Asked(c, buildBroker(c, observed))
               [] n = Credentials -> Asked(c, BrokerPassword(observed))
               [] n = Configuration(c.version) -> Asked(c, c.data)
               [] n \in Configurations \ {Configuration(c.version)} ->
                    observed[n].manifest
               [] OTHER -> Asked(c, None)]

\* GetSequence: a configuration that is kept is in no step.
RabbitSequence(c) ==
  <<{Credentials} \cup (IF c.public THEN {} ELSE BrokerSecurity)
      \cup (IF c.data = None THEN {} ELSE {Configuration(c.version)}),
    {Broker}>>

--------------------------------------------------------------------------------
(***************************************************************************)
(* AWS and its providers, and the user.                                    *)
(***************************************************************************)

\* The broker takes its password from the Secret when it is made, and its
\* configuration whenever that can be resolved; without one it keeps what it
\* has, and without a revision it takes the latest.
BrokerReports(observed) ==
  LET asked == observed[Broker].manifest.value
      said == Said(Broker, observed)
      configuration == IF asked.configuration = None
                         THEN ConfigurationInUse(observed) ELSE asked.configuration
      missing == configuration # None /\ Said(Configuration(configuration), observed) = None
      revision == CASE configuration = None -> None
                    [] configuration # None /\ asked.revision # None -> asked.revision
                    [] OTHER -> Said(Configuration(configuration), observed)
      password == IF said = None THEN ManifestValue(Credentials, observed)
                    ELSE said.password
  IN IF missing \/ password = None
       THEN {[observed[Broker].status EXCEPT !.phase = "down"]}
       ELSE Provided(Broker, observed, BrokerSecurity \cap DOMAIN observed,
              [configuration |-> configuration, revision |-> revision,
               password |-> password])

RabbitReports(n, observed) ==
  CASE n = Broker -> BrokerReports(observed)
    [] n \in Configurations -> Provided(n, observed, {}, observed[n].manifest.value)
    [] OTHER -> Provided(n, observed, {}, None)

\* AWS deletes nothing that the broker uses.
RabbitRemovable(n, observed) ==
  CASE n \in Configurations ->
         \A v \in EngineVersion : n = Configuration(v) => ConfigurationInUse(observed) # v
    [] n \in BrokerSecurity -> Broker \notin DOMAIN observed
    [] OTHER -> TRUE

\* One field changes; the XRD refuses to take a configuration away and to
\* change whether the broker is public.
RabbitEdits(c) ==
  {e \in RabbitComposite :
     /\ e.public = c.public
     /\ c.data # None => e.data # None
     /\ \E f \in DOMAIN c : e[f] # c[f] /\ \A g \in DOMAIN c \ {f} : e[g] = c[g]}

\* Composition for RabbitMQBroker, as long as nobody deletes the Secret with
\* the credentials: assumed by the theorems of Services_proofs.
RabbitParameters ==
  /\ NewStatus = ServiceNewStatus
  /\ \A c : \A observed : Generate(c, observed) = RabbitGenerate(c, observed)
  /\ \A n \in RabbitName : \A observed :
       /\ Reports(n, observed) = RabbitReports(n, observed)
       /\ Degrades(n, observed) = ServiceDegrades(n, observed)
  /\ Credentials \notin Losable

\* Edits only go forward to another version, and a configuration that is given
\* once is always given.
RabbitAdvances(rank) ==
  /\ rank \in [EngineVersion -> Nat]
  /\ \A v, w \in EngineVersion : rank[v] = rank[w] => v = w
  /\ \A c \in Start : c.version \in EngineVersion
  /\ \A c : c.version \in EngineVersion =>
       \A e \in Edits(c) : /\ e.version \in EngineVersion
                           /\ rank[c.version] <= rank[e.version]
                           /\ c.data # None => e.data # None

--------------------------------------------------------------------------------
(***************************************************************************)
(* Properties.                                                             *)
(***************************************************************************)

\* The controller never deletes a Configuration that the broker uses at that
\* very moment, however old the reading of its pass: the stale ones are kept "so
\* they are not garbage-collected while the broker is still switching to the
\* current one" (rabbitmq_broker.go, lines 155-158).  It holds while versions
\* only advance, and not when an edit returns to the version that the broker
\* still reports.
ConfigurationInUseStays ==
  [][\A v \in EngineVersion :
       (/\ run' # run
        /\ Configuration(v) \in DOMAIN world \cap DOMAIN world'
        /\ ~world[Configuration(v)].deleting /\ world'[Configuration(v)].deleting)
         => ConfigurationInUse(world) # v]_vars

\* As long as nobody deletes the Secret with the credentials, it holds the
\* password the broker was made with, which nothing can change any more
\* (resolvePassword; the user in buildBroker's InitProvider).
BrokerPasswordAgrees ==
  (Credentials \in DOMAIN world /\ Said(Broker, world) # None)
    => ManifestValue(Credentials, world) = Said(Broker, world).password

\* Once the disruptions are over and all is known, the broker runs the text
\* that the composite gives, though the revision it is asked to run is the one
\* observed last (observedConfigurationRevision).
ConfigurationArrives ==
  <>[](composite.kind = "RabbitMQBroker" /\ composite.known
         /\ Generate(composite, world) # Fatal)
    => <>[](/\ Said(Broker, world) # None
            /\ composite.data # None =>
                 Said(Broker, world).revision = composite.data)
================================================================================
