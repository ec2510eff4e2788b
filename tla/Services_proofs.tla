------------------------------ MODULE Services_proofs --------------------------
(***************************************************************************)
(* The credentials of a KafkaUser and of a RabbitMQBroker, the parameter   *)
(* group that a ValkeyInstance uses and the configuration that a broker    *)
(* does: for any passwords, access rules, engine versions, texts and       *)
(* edits, and any order of passes, aborts, reports and deletions.          *)
(***************************************************************************)
EXTENDS Valkey, Kafka, RabbitMQ, Composition_proofs

(***************************************************************************)
(* Statuses: what a provider that only changes the phase leaves as it was. *)
(***************************************************************************)

HasSaid(status) == status = [phase |-> status.phase, said |-> status.said]

LEMMA PhaseChange ==
  ASSUME NEW status, HasSaid(status), NEW phase
  PROVE  LET changed == [status EXCEPT !.phase = phase]
         IN HasSaid(changed) /\ changed.said = status.said
  <1> DEFINE changed == [status EXCEPT !.phase = phase]
  <1>1. status \in [phase : {status.phase}, said : {status.said}]
    BY DEF HasSaid
  <1>2. changed \in [phase : {phase}, said : {status.said}]
    BY <1>1
  <1>3. ASSUME NEW a, NEW b, NEW s \in [phase : {a}, said : {b}]
        PROVE  HasSaid(s) /\ s.said = b
    BY DEF HasSaid
  <1> QED BY <1>2, <1>3

LEMMA ProvidedSays ==
  ASSUME NEW n, NEW observed, HasSaid(observed[n].status), NEW needed, NEW says,
         NEW s \in Provided(n, observed, needed, says)
  PROVE  /\ HasSaid(s)
         /\ s.said = says \/ s.said = observed[n].status.said
  <1>1. \/ s = [phase |-> "up", said |-> says]
        \/ s = [observed[n].status EXCEPT !.phase = "down"]
    BY Zenon DEF Provided
  <1> QED BY <1>1, PhaseChange DEF HasSaid

LEMMA DegradedSays ==
  ASSUME NEW n, NEW observed, HasSaid(observed[n].status),
         NEW s \in ServiceDegrades(n, observed)
  PROVE  HasSaid(s) /\ s.said = observed[n].status.said
  <1>1. s = [observed[n].status EXCEPT !.phase = "down"]
    BY Zenon DEF ServiceDegrades
  <1> QED BY <1>1, PhaseChange

--------------------------------------------------------------------------------
(***************************************************************************)
(* KafkaUser.                                                              *)
(***************************************************************************)

LEMMA DifferentKafkaNames ==
  /\ K8sSecret # KafkaVersion
  /\ KafkaVersion # MskCluster
  /\ {K8sSecret, KafkaVersion} \subseteq KafkaUserName
  BY DEF K8sSecret, KafkaVersion, MskCluster, KafkaUserName

\* What generate says of the Secret, and when it asks for the version.
LEMMA GeneratedPassword ==
  ASSUME KafkaParameters, NEW c, NEW observed, Generate(c, observed) # Fatal
  PROVE  /\ K8sSecret \in DOMAIN Generate(c, observed)
         /\ Generate(c, observed)[K8sSecret].value = resolvePassword(observed)
         /\ resolvePassword(observed) # Fatal
         /\ KafkaVersion \in DOMAIN Generate(c, observed)
              => K8sSecret \in DOMAIN observed
  <1> DEFINE names == {K8sSecret} \cup BesidesTheSecret(c, observed)
  <1>1. Generate(c, observed)
          = [n \in names |->
               Asked(c, IF n = K8sSecret THEN resolvePassword(observed) ELSE None)]
    BY DEF KafkaParameters, KafkaUserGenerate
  <1>2. KafkaVersion \in names => K8sSecret \in DOMAIN observed
    BY DifferentKafkaNames DEF BesidesTheSecret
  <1>3. K8sSecret \in names
    OBVIOUS
  <1>4. resolvePassword(observed) # Fatal
    BY DEF KafkaParameters, KafkaUserGenerate
  <1> HIDE DEF names
  <1> QED BY <1>1, <1>2, <1>3, <1>4 DEF Asked

\* A version says what it said before, or is made of the Secret there is.
LEMMA VersionReported ==
  ASSUME KafkaParameters, KafkaVersion \in DOMAIN world,
         HasSaid(world[KafkaVersion].status),
         NEW s \in Reports(KafkaVersion, world) \cup Degrades(KafkaVersion, world)
  PROVE  /\ HasSaid(s)
         /\ \/ s.said = world[KafkaVersion].status.said
            \/ /\ K8sSecret \in DOMAIN world
               /\ s.said = world[K8sSecret].manifest.value
  <1> DEFINE old == world[KafkaVersion].status
             down == [old EXCEPT !.phase = "down"]
  <1>1. Said(KafkaVersion, world) = old.said
    BY DEF Said
  <1>2. HasSaid(down) /\ down.said = old.said
    BY PhaseChange
  <1>3. CASE s \in Degrades(KafkaVersion, world)
    <2>1. s \in ServiceDegrades(KafkaVersion, world)
      BY <1>3, DifferentKafkaNames DEF KafkaParameters, KafkaDegrades
    <2> QED BY <2>1, DegradedSays
  <1>4. CASE s \in Reports(KafkaVersion, world)
    <2>1. s \in KafkaVersionReports(world)
      <3>1. KafkaReports(KafkaVersion, world) = KafkaVersionReports(world)
        BY DEF KafkaReports, KafkaVersion, MskCluster, ConfigSecret,
               ClusterProviderConfig, K8sSecret, SecretPolicy, ScramAssociation
      <3> QED BY <1>4, <3>1, DifferentKafkaNames DEF KafkaParameters
    <2>2. ASSUME NEW says, s \in Provided(KafkaVersion, world, {AwsSecret}, says)
          PROVE  HasSaid(s) /\ (s.said = says \/ s.said = old.said)
      BY <2>2, ProvidedSays
    <2>3. CASE old.said # None
      BY <1>1, <2>1, <2>2, <2>3 DEF KafkaVersionReports
    <2>4. CASE old.said = None /\ K8sSecret \in DOMAIN world
      <3>1. s \in Provided(KafkaVersion, world, {AwsSecret},
                           world[K8sSecret].manifest.value)
        BY <1>1, <2>1, <2>4 DEF KafkaVersionReports, ManifestValue
      <3> QED BY <2>2, <2>4, <3>1
    <2>5. CASE old.said = None /\ K8sSecret \notin DOMAIN world
      <3>1. s = down
        BY <1>1, <2>1, <2>5 DEF KafkaVersionReports
      <3> HIDE DEF down
      <3> QED BY <1>2, <3>1
    <2> QED BY <2>3, <2>4, <2>5
  <1> QED BY <1>3, <1>4

--------------------------------------------------------------------------------
(***************************************************************************)
(* That the version agrees with the Secret is not inductive: a Secret that *)
(* a pass is about to make would find the version of another.              *)
(***************************************************************************)

\* A pass asks the Secret for the password that it has, if it has one.
PasswordRead ==
  K8sSecret \in DOMAIN run.desired \cap DOMAIN world
    => world[K8sSecret].manifest.value \in {None, run.desired[K8sSecret].value}

\* Whoever makes a Secret first does away with the version of another.
VersionMakesWay ==
  (/\ K8sSecret \in run.todo \cap DOMAIN run.desired
   /\ KafkaVersion \in DOMAIN world
   /\ ~world[KafkaVersion].deleting
   /\ world[KafkaVersion].status.said # None)
    => \/ KafkaVersion \in run.todo \ DOMAIN run.desired
       \/ world[KafkaVersion].status.said = run.desired[K8sSecret].value

VersionHasSaid ==
  KafkaVersion \in DOMAIN world => HasSaid(world[KafkaVersion].status)

KafkaInv ==
  /\ HasFields(run)
  /\ VersionHasSaid
  /\ PasswordRead
  /\ VersionMakesWay
  /\ KafkaPasswordAgrees

LEMMA KafkaInitially == Init => KafkaInv
  BY DEF Init, KafkaInv, VersionHasSaid, HasFields, PasswordRead, VersionMakesWay,
         KafkaPasswordAgrees, NoRun, NoNames

LEMMA PassOnPassword ==
  ASSUME KafkaParameters, ResourcesHaveFields, KafkaInv,
         run' = PassOn(composite, world), world' = world
  PROVE  HasFields(run)' /\ PasswordRead' /\ VersionMakesWay'
  <1> DEFINE r == PassOn(composite, world)
  <1>1. CASE r = NoRun
    BY <1>1 DEF NoRun, NoNames, HasFields, PasswordRead, VersionMakesWay
  <1>2. CASE r # NoRun
    <2>1. /\ HasFields(r)
          /\ Generate(composite, world) # Fatal
          /\ r.generated = Generate(composite, world)
          /\ r.desired = Sequenced(Sequence(composite), r.generated, world)
          /\ r.todo \ DOMAIN r.desired
               = {n \in DOMAIN world \ DOMAIN r.desired : ~world[n].deleting}
      BY <1>2, PassOnFacts
    <2>2. run' = r
      OBVIOUS
    <2> HIDE DEF r
    <2>3. /\ DOMAIN r.desired \subseteq DOMAIN r.generated
          /\ \A n \in DOMAIN r.desired : r.desired[n] = r.generated[n]
      BY <2>1, SequencedFacts
    <2>4. /\ r.generated[K8sSecret].value = resolvePassword(world)
          /\ resolvePassword(world) # Fatal
          /\ KafkaVersion \in DOMAIN r.generated => K8sSecret \in DOMAIN world
      BY <2>1, GeneratedPassword
    <2>5. ASSUME K8sSecret \in DOMAIN r.desired, K8sSecret \in DOMAIN world
          PROVE  world[K8sSecret].manifest.value \in {None, r.desired[K8sSecret].value}
      BY <2>3, <2>4, <2>5 DEF resolvePassword, ManifestValue
    <2>6. ASSUME K8sSecret \in DOMAIN r.desired, KafkaVersion \in DOMAIN world,
                 ~world[KafkaVersion].deleting,
                 world[KafkaVersion].status.said # None
          PROVE  \/ KafkaVersion \in r.todo \ DOMAIN r.desired
                 \/ world[KafkaVersion].status.said = r.desired[K8sSecret].value
      <3>1. CASE K8sSecret \in DOMAIN world
        BY <2>5, <2>6, <3>1 DEF KafkaInv, KafkaPasswordAgrees, Said, ManifestValue
      <3>2. CASE K8sSecret \notin DOMAIN world
        BY <2>1, <2>3, <2>4, <2>6, <3>2
      <3> QED BY <3>1, <3>2
    <2> QED BY <2>1, <2>2, <2>5, <2>6 DEF HasFields, PasswordRead, VersionMakesWay
  <1> QED BY <1>1, <1>2

\* A version that is there after a step and not on its way out was so before,
\* and says what it said or what the Secret holds.
LEMMA VersionChange ==
  ASSUME KafkaParameters, ResourcesHaveFields, VersionHasSaid, [Next]_vars,
         KafkaVersion \in DOMAIN world'
  PROVE  /\ HasSaid(world'[KafkaVersion].status)
         /\ (~world'[KafkaVersion].deleting /\ world'[KafkaVersion].status.said # None)
              => /\ KafkaVersion \in DOMAIN world
                 /\ ~world[KafkaVersion].deleting
                 /\ \/ world'[KafkaVersion].status.said = world[KafkaVersion].status.said
                    \/ /\ K8sSecret \in DOMAIN world
                       /\ world'[KafkaVersion].status.said = world[K8sSecret].manifest.value
  <1>1. CASE KafkaVersion \notin DOMAIN world
    <2>1. world'[KafkaVersion].status = [phase |-> "new", said |-> None]
      BY <1>1, ResourceChange DEF KafkaParameters, ServiceNewStatus
    <2> QED BY <2>1 DEF HasSaid
  <1>2. CASE KafkaVersion \in DOMAIN world
    <2>1. /\ world[KafkaVersion].deleting => world'[KafkaVersion].deleting
          /\ \/ world'[KafkaVersion].status = world[KafkaVersion].status
             \/ world'[KafkaVersion].status
                  \in Reports(KafkaVersion, world) \cup Degrades(KafkaVersion, world)
      BY <1>2, ResourceChange
    <2>2. HasSaid(world[KafkaVersion].status)
      BY <1>2 DEF VersionHasSaid
    <2> QED BY <1>2, <2>1, <2>2, VersionReported
  <1> QED BY <1>1, <1>2

\* The Secret keeps its password, or the pass gives it one that has none.
LEMMA SecretChange ==
  ASSUME ResourcesHaveFields, PasswordRead, [Next]_vars, K8sSecret \in DOMAIN world'
  PROVE  \/ /\ K8sSecret \in DOMAIN world
            /\ world'[K8sSecret].manifest.value = world[K8sSecret].manifest.value
         \/ /\ K8sSecret \in DOMAIN world => world[K8sSecret].manifest.value = None
            /\ K8sSecret \in run.todo
            /\ run.todo \subseteq DOMAIN run.desired
            /\ world'[K8sSecret].manifest = run.desired[K8sSecret]
  <1>1. Apply(K8sSecret) => K8sSecret \in run.todo /\ run.todo \subseteq DOMAIN run.desired
    BY DEF Apply
  <1> QED BY <1>1, ResourceChange DEF PasswordRead

LEMMA WorldPassword ==
  ASSUME KafkaParameters, ResourcesHaveFields, KafkaInv, [Next]_vars
  PROVE  KafkaPasswordAgrees'
  <1> SUFFICES ASSUME K8sSecret \in DOMAIN world', KafkaVersion \in DOMAIN world',
                      ~world'[KafkaVersion].deleting,
                      world'[KafkaVersion].status.said # None
               PROVE  world'[KafkaVersion].status.said = world'[K8sSecret].manifest.value
    BY DEF KafkaPasswordAgrees, Said, ManifestValue
  <1>1. CASE K8sSecret \in DOMAIN world
    BY <1>1, VersionChange, SecretChange
       DEF KafkaInv, KafkaPasswordAgrees, Said, ManifestValue
  <1>2. CASE K8sSecret \notin DOMAIN world
    BY <1>2, VersionChange, SecretChange DEF KafkaInv, VersionMakesWay
  <1> QED BY <1>1, <1>2

\* As a pass goes on, it asks for the same and does not forget to make way.
LEMMA CallsPassword ==
  ASSUME KafkaParameters, ResourcesHaveFields, KafkaInv, [Next]_vars,
         run'.desired = run.desired, run'.todo \subseteq run.todo
  PROVE  PasswordRead' /\ VersionMakesWay'
  <1>1. PasswordRead'
    BY SecretChange DEF KafkaInv, PasswordRead
  <1>2. VersionMakesWay'
    <2> SUFFICES ASSUME K8sSecret \in run'.todo, K8sSecret \in DOMAIN run.desired,
                        KafkaVersion \in DOMAIN world', ~world'[KafkaVersion].deleting,
                        world'[KafkaVersion].status.said # None
                 PROVE  \/ KafkaVersion \in run'.todo \ DOMAIN run.desired
                        \/ world'[KafkaVersion].status.said = run.desired[K8sSecret].value
      BY DEF VersionMakesWay
    <2>1. /\ KafkaVersion \in DOMAIN world
          /\ ~world[KafkaVersion].deleting
          /\ \/ world'[KafkaVersion].status.said = world[KafkaVersion].status.said
             \/ /\ K8sSecret \in DOMAIN world
                /\ world'[KafkaVersion].status.said = world[K8sSecret].manifest.value
      BY VersionChange DEF KafkaInv
    <2>2. \/ KafkaVersion \in run.todo \ DOMAIN run.desired
          \/ world'[KafkaVersion].status.said = run.desired[K8sSecret].value
      BY <2>1 DEF KafkaInv, PasswordRead, VersionMakesWay
    <2>3. CASE KafkaVersion \in run.todo \ DOMAIN run.desired
      <3>1. ~GarbageCollect(KafkaVersion)
        <4>1. world[KafkaVersion] = [manifest |-> world[KafkaVersion].manifest,
                                     status |-> world[KafkaVersion].status,
                                     deleting |-> world[KafkaVersion].deleting]
          BY <2>1 DEF ResourcesHaveFields
        <4>2. world'[KafkaVersion] # [world[KafkaVersion] EXCEPT !.deleting = TRUE]
          BY <4>1
        <4> QED BY <2>1, <4>2 DEF GarbageCollect, SetWorld
      <3>2. ~Apply(KafkaVersion)
        BY <2>3 DEF Apply
      <3>3. run' # NoRun /\ run.todo # {}
        BY <2>3 DEF NoRun
      <3>4. \/ UNCHANGED run
            \/ \E n \in Name \ {KafkaVersion} : run' = Called(n)
        BY <3>1, <3>2, <3>3
           DEF Next, vars, Reconcile, GarbageCollect, Apply, Report, Remove, Edit,
               Degrade, Lose, Abort
      <3>5. ASSUME NEW n \in Name, run' = Called(n), n # KafkaVersion
            PROVE  KafkaVersion \in run'.todo
        BY <2>3, <3>3, <3>5, CalledFields DEF KafkaInv
      <3> QED BY <2>3, <3>4, <3>5
    <2> QED BY <2>2, <2>3
  <1> QED BY <1>1, <1>2

LEMMA KafkaStep ==
  ASSUME KafkaParameters, ResourcesHaveFields, KafkaInv, [Next]_vars
  PROVE  KafkaInv'
  <1>1. KafkaPasswordAgrees' /\ VersionHasSaid'
    BY WorldPassword, VersionChange DEF KafkaInv, VersionHasSaid
  <1>2. HasFields(run)' /\ PasswordRead' /\ VersionMakesWay'
    <2>1. CASE Reconcile
      BY <2>1, PassOnPassword DEF Reconcile
    <2>2. CASE run' = NoRun
      BY <2>2 DEF NoRun, NoNames, HasFields, PasswordRead, VersionMakesWay
    <2>3. CASE /\ HasFields(run') /\ run'.desired = run.desired
               /\ run'.todo \subseteq run.todo
      BY <2>3, CallsPassword DEF HasFields
    <2> QED BY <2>1, <2>2, <2>3, RunChange DEF KafkaInv
  <1> QED BY <1>1, <1>2 DEF KafkaInv

\* However often the Secret is lost and made anew, no version that stays holds
\* another password.
THEOREM KafkaPasswordIsOne ==
  ASSUME KafkaParameters
  PROVE  Spec => []KafkaPasswordAgrees
  <1>1. ResourcesHaveFields /\ KafkaInv /\ [Next]_vars => KafkaInv'
    BY KafkaStep
  <1>2. KafkaInv => KafkaPasswordAgrees
    BY DEF KafkaInv
  <1> QED BY <1>1, <1>2, KafkaInitially, FieldsAlways, PTL DEF Spec

--------------------------------------------------------------------------------
(***************************************************************************)
(* RabbitMQBroker.                                                         *)
(***************************************************************************)

LEMMA DifferentRabbitNames ==
  /\ Credentials # Broker
  /\ Broker \in RabbitName
  /\ Broker \notin Configurations
  BY DEF Credentials, Broker, RabbitName, Configurations, Configuration

\* generate always asks for the Secret, with the password that it has.
LEMMA GeneratedCredentials ==
  ASSUME RabbitParameters, NEW c, NEW observed, Generate(c, observed) # Fatal
  PROVE  /\ Credentials \in DOMAIN Generate(c, observed)
         /\ Generate(c, observed)[Credentials].value = BrokerPassword(observed)
         /\ BrokerPassword(observed) # Fatal
  <1> DEFINE configurations ==
               IF c.data = None THEN {}
               ELSE {Configuration(c.version)} \cup keepStaleConfigurations(c.version, observed)
             security == IF c.public THEN {} ELSE BrokerSecurity
             names == {Broker, Credentials} \cup configurations \cup security
  <1>1. Generate(c, observed)
          = [n \in names |->
               CASE n = Broker -> Asked(c, buildBroker(c, observed))
                 [] n = Credentials -> Asked(c, BrokerPassword(observed))
                 [] n = Configuration(c.version) -> Asked(c, c.data)
                 [] n \in Configurations \ {Configuration(c.version)} ->
                      observed[n].manifest
                 [] OTHER -> Asked(c, None)]
    BY DEF RabbitParameters, RabbitGenerate
  <1>2. Credentials \in names
    OBVIOUS
  <1> HIDE DEF names
  <1>3. Generate(c, observed)[Credentials] = Asked(c, BrokerPassword(observed))
    BY <1>1, <1>2, DifferentRabbitNames
       DEF Credentials, Configuration, Configurations
  <1>4. BrokerPassword(observed) # Fatal
    BY DEF RabbitParameters, RabbitGenerate
  <1> QED BY <1>1, <1>2, <1>3, <1>4 DEF Asked

\* A broker says what it said before, or has the password it was made with, or
\* that of the Secret there is when it is made.
LEMMA BrokerReported ==
  ASSUME RabbitParameters, Broker \in DOMAIN world, HasSaid(world[Broker].status),
         NEW s \in Reports(Broker, world) \cup Degrades(Broker, world)
  PROVE  LET said == world[Broker].status.said
         IN /\ HasSaid(s)
            /\ \/ s.said = said
               \/ said # None /\ s.said.password = said.password
               \/ /\ Credentials \in DOMAIN world
                  /\ s.said.password = world[Credentials].manifest.value
                  /\ s.said.password # None
  <1> DEFINE old == world[Broker].status
             down == [old EXCEPT !.phase = "down"]
             password == IF old.said = None THEN ManifestValue(Credentials, world)
                           ELSE old.said.password
  <1>1. Said(Broker, world) = old.said
    BY DEF Said
  <1>2. HasSaid(down) /\ down.said = old.said
    BY PhaseChange
  <1>3. CASE s \in Degrades(Broker, world)
    <2>1. s \in ServiceDegrades(Broker, world)
      BY <1>3, DifferentRabbitNames DEF RabbitParameters
    <2> QED BY <2>1, DegradedSays
  <1>4. CASE s \in Reports(Broker, world)
    <2> DEFINE asked == world[Broker].manifest.value
               configuration == IF asked.configuration = None
                 THEN ConfigurationInUse(world) ELSE asked.configuration
               missing == configuration # None
                            /\ Said(Configuration(configuration), world) = None
               revision == CASE configuration = None -> None
                 [] configuration # None /\ asked.revision # None -> asked.revision
                 [] OTHER -> Said(Configuration(configuration), world)
               says == [configuration |-> configuration, revision |-> revision,
                        password |-> password]
               needed == BrokerSecurity \cap DOMAIN world
    <2>1. s \in BrokerReports(world)
      <3>1. RabbitReports(Broker, world) = BrokerReports(world)
        BY DifferentRabbitNames DEF RabbitReports
      <3> QED BY <1>4, <3>1, DifferentRabbitNames DEF RabbitParameters
    <2>2. s \in IF missing \/ password = None THEN {down}
               ELSE Provided(Broker, world, needed, says)
      BY <1>1, <2>1 DEF BrokerReports
    <2>3. says.password = password
      OBVIOUS
    <2> HIDE DEF missing, needed, says
    <2>4. \/ s = down
          \/ password # None /\ HasSaid(s) /\ (s.said = says \/ s.said = old.said)
      <3> HIDE DEF down, password
      <3> QED BY <2>2, ProvidedSays
    <2>5. \/ s = down
          \/ HasSaid(s) /\ s.said = old.said
          \/ password # None /\ HasSaid(s) /\ s.said.password = password
      BY <2>3, <2>4
    <2> HIDE DEF down
    <2> QED BY <1>2, <2>5 DEF ManifestValue
  <1> QED BY <1>3, <1>4

--------------------------------------------------------------------------------
(***************************************************************************)
(* That the Secret agrees with the broker is not inductive: a Secret that  *)
(* is made anew, or that a pass would give another password, does not.     *)
(***************************************************************************)

\* A pass asks the Secret for the password that it has, if it has one.
CredentialsRead ==
  Credentials \in DOMAIN run.desired \cap DOMAIN world
    => world[Credentials].manifest.value \in {None, run.desired[Credentials].value}

\* Nobody is about to delete the Secret, or has.
CredentialsStay ==
  /\ Credentials \notin run.todo \ DOMAIN run.desired
  /\ Credentials \in DOMAIN world => ~world[Credentials].deleting

\* A broker has been made with the password of a Secret.
BrokerHasPassword ==
  (Broker \in DOMAIN world /\ world[Broker].status.said # None)
    => Credentials \in DOMAIN world /\ world[Broker].status.said.password # None

BrokerHasSaid ==
  Broker \in DOMAIN world => HasSaid(world[Broker].status)

BrokerInv ==
  /\ HasFields(run)
  /\ BrokerHasSaid
  /\ CredentialsRead
  /\ CredentialsStay
  /\ BrokerHasPassword
  /\ BrokerPasswordAgrees

LEMMA BrokerInitially == Init => BrokerInv
  BY DEF Init, BrokerInv, BrokerHasSaid, HasFields, CredentialsRead, CredentialsStay,
         BrokerHasPassword, BrokerPasswordAgrees, Said, NoRun, NoNames

\* A new pass asks for the Secret there is as it is.
LEMMA PassOnCredentials ==
  ASSUME RabbitParameters, NEW c, NEW observed
  PROVE  LET r == PassOn(c, observed)
         IN /\ HasFields(r)
            /\ Credentials \notin r.todo \ DOMAIN r.desired
            /\ Credentials \in DOMAIN r.desired \cap DOMAIN observed
                 => observed[Credentials].manifest.value
                      \in {None, r.desired[Credentials].value}
  <1> DEFINE r == PassOn(c, observed)
  <1>1. CASE r = NoRun
    BY <1>1 DEF NoRun, NoNames, HasFields
  <1>2. CASE r # NoRun
    <2>1. /\ HasFields(r)
          /\ Generate(c, observed) # Fatal
          /\ r.generated = Generate(c, observed)
          /\ r.desired = Sequenced(Sequence(c), r.generated, observed)
          /\ r.todo \ DOMAIN r.desired
               = {n \in DOMAIN observed \ DOMAIN r.desired : ~observed[n].deleting}
      BY <1>2, PassOnFacts
    <2> HIDE DEF r
    <2>2. /\ DOMAIN r.generated \cap DOMAIN observed \subseteq DOMAIN r.desired
          /\ \A n \in DOMAIN r.desired : r.desired[n] = r.generated[n]
      BY <2>1, SequencedFacts
    <2>3. /\ Credentials \in DOMAIN r.generated
          /\ r.generated[Credentials].value = BrokerPassword(observed)
          /\ BrokerPassword(observed) # Fatal
      BY <2>1, GeneratedCredentials
    <2> QED BY <2>1, <2>2, <2>3 DEF BrokerPassword, ManifestValue, r
  <1> QED BY <1>1, <1>2

\* The Secret is only ever made, never taken away, and keeps its password if it
\* has one.
LEMMA CredentialsChange ==
  ASSUME RabbitParameters, ResourcesHaveFields, BrokerInv, [Next]_vars
  PROVE  /\ Credentials \in DOMAIN world =>
              /\ Credentials \in DOMAIN world'
              /\ \/ world'[Credentials].manifest.value = world[Credentials].manifest.value
                 \/ /\ world[Credentials].manifest.value = None
                    /\ world'[Credentials].manifest = run.desired[Credentials]
         /\ Credentials \in DOMAIN world' => ~world'[Credentials].deleting
         /\ Credentials \in DOMAIN world' \ DOMAIN world =>
              /\ Apply(Credentials)
              /\ world'[Credentials].manifest = run.desired[Credentials]
  <1>1. ASSUME Credentials \in DOMAIN world
        PROVE  Credentials \in DOMAIN world'
    <2>1. ~Remove(Credentials)
      BY <1>1 DEF BrokerInv, CredentialsStay, Remove
    <2> QED BY <1>1, <2>1 DEF Next, vars, Reconcile, GarbageCollect, Apply, Report,
              Remove, Edit, Degrade, Lose, Abort, SetWorld
  <1>2. ASSUME Credentials \in DOMAIN world
        PROVE  \/ world'[Credentials].manifest.value = world[Credentials].manifest.value
               \/ /\ world[Credentials].manifest.value = None
                  /\ world'[Credentials].manifest = run.desired[Credentials]
    <2>1. Apply(Credentials) => Credentials \in DOMAIN run.desired
      BY DEF Apply
    <2> QED BY <1>1, <1>2, <2>1, ResourceChange DEF BrokerInv, CredentialsRead
  <1>3. ASSUME Credentials \in DOMAIN world' \ DOMAIN world
        PROVE  /\ Apply(Credentials)
               /\ world'[Credentials].manifest = run.desired[Credentials]
               /\ ~world'[Credentials].deleting
    <2>1. Apply(Credentials) /\ world'[Credentials].manifest = run.desired[Credentials]
      BY <1>3, ResourceChange
    <2> QED BY <1>3, <2>1 DEF Apply, SetWorld
  <1>4. ASSUME Credentials \in DOMAIN world
        PROVE  ~world'[Credentials].deleting
    <2>1. /\ world[Credentials] = [manifest |-> world[Credentials].manifest,
                                   status |-> world[Credentials].status,
                                   deleting |-> world[Credentials].deleting]
          /\ ~world[Credentials].deleting
      BY <1>4 DEF ResourcesHaveFields, BrokerInv, CredentialsStay
    <2>2. ~GarbageCollect(Credentials) /\ ~Lose(Credentials)
      BY DEF GarbageCollect, Lose, BrokerInv, CredentialsStay, RabbitParameters
    <2>3. \/ world'[Credentials] = world[Credentials]
          \/ world'[Credentials]
               = [world[Credentials] EXCEPT !.manifest = run.desired[Credentials]]
          \/ \E s : world'[Credentials] = [world[Credentials] EXCEPT !.status = s]
      BY <1>1, <1>4, <2>2 DEF Next, vars, Reconcile, GarbageCollect, Apply, Report,
         Remove, Edit, Degrade, Lose, Abort, SetWorld
    <2> QED BY <2>1, <2>3
  <1> QED BY <1>1, <1>2, <1>3, <1>4

\* A broker that has a password has kept it, or takes that of the Secret.
LEMMA BrokerChange ==
  ASSUME RabbitParameters, ResourcesHaveFields, BrokerHasSaid, [Next]_vars,
         Broker \in DOMAIN world'
  PROVE  LET said == world[Broker].status.said
             says == world'[Broker].status.said
         IN /\ HasSaid(world'[Broker].status)
            /\ says # None =>
                 /\ Broker \in DOMAIN world
                 /\ \/ said # None /\ says.password = said.password
                    \/ /\ Credentials \in DOMAIN world
                       /\ says.password = world[Credentials].manifest.value
                       /\ says.password # None
  <1>1. CASE Broker \notin DOMAIN world
    <2>1. world'[Broker].status = [phase |-> "new", said |-> None]
      BY <1>1, ResourceChange DEF RabbitParameters, ServiceNewStatus
    <2> QED BY <2>1 DEF HasSaid
  <1>2. CASE Broker \in DOMAIN world
    <2>1. \/ world'[Broker].status = world[Broker].status
          \/ world'[Broker].status \in Reports(Broker, world) \cup Degrades(Broker, world)
      BY <1>2, ResourceChange
    <2>2. HasSaid(world[Broker].status)
      BY <1>2 DEF BrokerHasSaid
    <2> QED BY <1>2, <2>1, <2>2, BrokerReported
  <1> QED BY <1>1, <1>2

LEMMA BrokerStep ==
  ASSUME RabbitParameters, ResourcesHaveFields, BrokerInv, [Next]_vars
  PROVE  BrokerInv'
  <1>1. BrokerHasPassword' /\ BrokerHasSaid'
    BY BrokerChange, CredentialsChange DEF BrokerInv, BrokerHasPassword, BrokerHasSaid
  <1>2. BrokerPasswordAgrees'
    <2> SUFFICES ASSUME Credentials \in DOMAIN world', Broker \in DOMAIN world',
                        world'[Broker].status.said # None
                 PROVE  world'[Credentials].manifest.value
                          = world'[Broker].status.said.password
      BY DEF BrokerPasswordAgrees, Said, ManifestValue
    <2>1. /\ Credentials \in DOMAIN world
          /\ world[Credentials].manifest.value # None
      BY BrokerChange
         DEF BrokerInv, BrokerHasPassword, BrokerPasswordAgrees, Said, ManifestValue
    <2>2. world'[Credentials].manifest.value = world[Credentials].manifest.value
      BY <2>1, CredentialsChange
    <2> QED BY <2>1, <2>2, BrokerChange
            DEF BrokerInv, BrokerPasswordAgrees, Said, ManifestValue
  <1>3. HasFields(run)' /\ CredentialsRead' /\ CredentialsStay'
    <2>1. Credentials \in DOMAIN world' => ~world'[Credentials].deleting
      BY CredentialsChange
    <2>2. CASE Reconcile
      BY <2>1, <2>2, PassOnCredentials
         DEF Reconcile, HasFields, CredentialsRead, CredentialsStay
    <2>3. CASE run' = NoRun
      BY <2>1, <2>3 DEF NoRun, NoNames, HasFields, CredentialsRead, CredentialsStay
    <2>4. CASE /\ HasFields(run') /\ run'.desired = run.desired
               /\ run'.todo \subseteq run.todo
      <3>1. CredentialsRead'
        BY <2>4, CredentialsChange DEF BrokerInv, CredentialsRead
      <3> QED BY <2>1, <2>4, <3>1 DEF HasFields, BrokerInv, CredentialsStay
    <2> QED BY <2>2, <2>3, <2>4, RunChange DEF BrokerInv
  <1> QED BY <1>1, <1>2, <1>3 DEF BrokerInv

\* As long as nobody deletes the Secret, it holds the password that the broker
\* was made with, whatever else is edited, lost, aborted or made anew.
THEOREM BrokerKeepsItsPassword ==
  ASSUME RabbitParameters
  PROVE  Spec => []BrokerPasswordAgrees
  <1>1. ResourcesHaveFields /\ BrokerInv /\ [Next]_vars => BrokerInv'
    BY BrokerStep
  <1>2. BrokerInv => BrokerPasswordAgrees
    BY DEF BrokerInv
  <1> QED BY <1>1, <1>2, BrokerInitially, FieldsAlways, PTL DEF Spec

--------------------------------------------------------------------------------
(***************************************************************************)
(* ValkeyInstance.  A pass deletes the groups that its reading showed out  *)
(* of use.  What the replication group uses at the time of the call is     *)
(* bounded by what it was asked to use, which no call changes before the   *)
(* pass has collected, and this by the version, which only advances.       *)
(***************************************************************************)

\* Of the replication group, whoever asks, a version that the composite has had
\* and no group of another.
AskedOf(rank, asked) ==
  /\ asked.version \in Family
  /\ rank[asked.version] <= rank[composite.version]
  /\ asked.group \in Family => asked.group = asked.version

GroupsAsked(rank) ==
  /\ Rg \in DOMAIN world => AskedOf(rank, world[Rg].manifest.value)
  /\ Rg \in DOMAIN run.desired => AskedOf(rank, run.desired[Rg].value)
  /\ Rg \in DOMAIN world \cap DOMAIN run.desired =>
       rank[world[Rg].manifest.value.version] <= rank[run.desired[Rg].value.version]

\* No group in use is of a later version than the one asked for.
UsesAskedGroup(rank) ==
  GroupInUse(world) \in Family =>
    rank[GroupInUse(world)] <= rank[world[Rg].manifest.value.version]

RgHasSaid ==
  Rg \in DOMAIN world => HasSaid(world[Rg].status)

\* What a pass has left to collect is not in use, and not asked for either.
CollectsUnusedGroups ==
  \A f \in Family :
    (/\ ValkeyGroup(f) \in run.todo \ DOMAIN run.desired
     /\ ValkeyGroups \cap DOMAIN run.generated # {}
     /\ Rg \in DOMAIN world)
      => GroupInUse(world) # f /\ world[Rg].manifest.value.group # f

ValkeyInv(rank) ==
  /\ HasFields(run)
  /\ composite.version \in Family
  /\ RgHasSaid
  /\ GroupsAsked(rank)
  /\ UsesAskedGroup(rank)
  /\ CollectsUnusedGroups

LEMMA ValkeyNamesDiffer ==
  /\ Rg \in ValkeyName
  /\ Rg \notin SgIngresses /\ Rg # Credentials
  /\ ValkeyGroups \cap ({Rg, ValkeySg} \cup SgIngresses \cup SecretName) = {}
  /\ \A f, g : ValkeyGroup(f) = ValkeyGroup(g) => f = g
  BY DEF Rg, ValkeyName, SgIngresses, SgIngress, ValkeyGroups, ValkeyGroup, ValkeySg,
         SecretName, Credentials, Secret, SecretVersion

\* What generate asks of the replication group, and which groups it leaves out.
LEMMA GeneratedGroups ==
  ASSUME ValkeyParameters, NEW c, c.version \in Family, NEW observed,
         Generate(c, observed) # Fatal
  PROVE  LET generated == Generate(c, observed)
         IN /\ generated[Rg].value.version = c.version
            /\ generated[Rg].value.group \in Family => generated[Rg].value.group = c.version
            /\ \A f \in Family :
                 (/\ ValkeyGroups \cap DOMAIN generated # {}
                  /\ ValkeyGroup(f) \in DOMAIN observed \ DOMAIN generated)
                   => f # c.version /\ GroupInUse(observed) = c.version
  <1> DEFINE names == {Rg, ValkeySg} \cup ValkeyParameterGroups(c, observed)
                        \cup buildSecurityGroupRules(c)
                        \cup ValkeySecrets(observed) \cup ValkeyCredentials(observed)
  <1>1. /\ DOMAIN Generate(c, observed) = names
        /\ Generate(c, observed)[Rg] = buildReplicationGroup(c, observed)
    <2>1. Generate(c, observed)
            = [n \in names |->
                 CASE n = Rg -> buildReplicationGroup(c, observed)
                   [] n = Credentials -> Asked(c, AuthToken(observed))
                   [] OTHER -> Asked(c, None)]
      BY DEF ValkeyParameters, ValkeyGenerate
    <2>2. Rg \in names
      OBVIOUS
    <2> HIDE DEF names
    <2> QED BY <2>1, <2>2, ValkeyNamesDiffer
  <1>2. computeValkeyFamily(c, observed) = c.version
    BY FamilyAssumption DEF computeValkeyFamily
  <1>3. /\ buildReplicationGroup(c, observed).value.version = c.version
        /\ buildReplicationGroup(c, observed).value.group \in {c.version, "named", "default", None}
    BY <1>2 DEF buildReplicationGroup, Asked
  <1>4. ASSUME NEW f \in Family, ValkeyGroups \cap names # {},
               ValkeyGroup(f) \in DOMAIN observed \ names
        PROVE  f # c.version /\ GroupInUse(observed) = c.version
    <2>1. buildSecurityGroupRules(c) \cup ValkeySecrets(observed) \cup ValkeyCredentials(observed)
            \subseteq {SgIngress(x) : x \in c.subnets} \cup SecretName
      BY DEF buildSecurityGroupRules, ValkeySecrets, ValkeyCredentials, SecretName
    <2>2. ValkeyGroups \cap names = ValkeyGroups \cap ValkeyParameterGroups(c, observed)
      BY <2>1, ValkeyNamesDiffer DEF ValkeyGroups, ValkeyGroup, SgIngress
    <2>3. ValkeyParameterGroups(c, observed)
            = {ValkeyGroup(c.version)} \cup keepStaleGroups(c.version, observed)
      BY <1>2, <1>4, <2>2 DEF ValkeyParameterGroups
    <2>4. ValkeyGroup(f) \notin ValkeyParameterGroups(c, observed) /\ ValkeyGroup(f) \in ValkeyGroups
      BY <1>4 DEF ValkeyGroups
    <2> QED BY <1>4, <2>3, <2>4 DEF keepStaleGroups
  <1> HIDE DEF names
  <1> QED BY <1>1, <1>3, <1>4, FamilyAssumption

\* The replication group goes on using the group it used, or the one asked for.
LEMMA RgReported ==
  ASSUME ValkeyParameters, Rg \in DOMAIN world, HasSaid(world[Rg].status),
         NEW s \in Reports(Rg, world) \cup Degrades(Rg, world)
  PROVE  /\ HasSaid(s)
         /\ \/ s.said = world[Rg].status.said
            \/ /\ s.said.group = world[Rg].manifest.value.group
               /\ s.said.group # None
            \/ s.said.group = GroupInUse(world)
  <1> DEFINE asked == world[Rg].manifest.value
             old == world[Rg].status
             down == [old EXCEPT !.phase = "down"]
  <1>1. HasSaid(down) /\ down.said = old.said
    BY PhaseChange
  <1>2. CASE s \in Degrades(Rg, world)
    <2>1. s \in ServiceDegrades(Rg, world)
      BY <1>2, ValkeyNamesDiffer DEF ValkeyParameters
    <2> QED BY <2>1, DegradedSays
  <1>3. CASE s \in Reports(Rg, world)
    <2> DEFINE group == IF asked.group = None THEN GroupInUse(world) ELSE asked.group
               missing == group \in Family
                            /\ \/ ~IsUp(ValkeyGroup(group), world)
                               \/ world[ValkeyGroup(group)].deleting
               running == CASE asked.version # None -> asked.version
                            [] EngineVersionActual(world) # None -> EngineVersionActual(world)
                            [] OTHER -> CHOOSE f \in Family : TRUE
               token == IF TokenInUse(world) = None THEN generatePassword(world)
                          ELSE TokenInUse(world)
               says == [version |-> running, group |-> group, token |-> token]
    <2>1. s \in ValkeyReports(Rg, world)
      BY <1>3, ValkeyNamesDiffer DEF ValkeyParameters
    <2>2. says.group = group
      OBVIOUS
    <2>3. ValkeyReports(Rg, world)
            = CASE Rg = Rg /\ missing -> {down}
                [] Rg = Rg /\ ~missing -> Provided(Rg, world, {ValkeySg}, says)
                [] Rg \in SgIngresses -> Provided(Rg, world, {ValkeySg}, None)
                [] OTHER -> Provided(Rg, world, {}, None)
      BY Zenon DEF ValkeyReports
    <2> HIDE DEF missing, says, down
    <2>4. s = down \/ s \in Provided(Rg, world, {ValkeySg}, says)
      BY <2>1, <2>3, ValkeyNamesDiffer
    <2>5. \/ s = down
          \/ HasSaid(s) /\ (s.said = says \/ s.said = old.said)
      BY <2>4, ProvidedSays
    <2> QED BY <1>1, <2>2, <2>5
  <1> QED BY <1>2, <1>3

LEMMA ValkeyInitially ==
  ASSUME NEW rank, ValkeyAdvances(rank), Init
  PROVE  ValkeyInv(rank)
  <1>1. composite.version \in Family
    BY DEF Init, ValkeyAdvances
  <1>2. Rg \notin DOMAIN world \cup DOMAIN run.desired /\ HasFields(run)
    BY DEF Init, NoRun, NoNames, HasFields
  <1>3. GroupInUse(world) \notin Family
    BY <1>2, FamilyAssumption DEF GroupInUse, Said
  <1> QED BY <1>1, <1>2, <1>3
          DEF ValkeyInv, RgHasSaid, GroupsAsked, UsesAskedGroup, CollectsUnusedGroups

\* A replication group, as it is after a step.
LEMMA RgChange ==
  ASSUME ValkeyParameters, ResourcesHaveFields, RgHasSaid, [Next]_vars, Rg \in DOMAIN world'
  PROVE  /\ HasSaid(world'[Rg].status)
         /\ \/ /\ Rg \notin DOMAIN world
               /\ world'[Rg].status.said = None
            \/ /\ Rg \in DOMAIN world
               /\ \/ GroupInUse(world') = GroupInUse(world)
                  \/ /\ GroupInUse(world') = world[Rg].manifest.value.group
                     /\ GroupInUse(world') # None
                  \/ GroupInUse(world') = None
         /\ \/ /\ Rg \in DOMAIN world
               /\ world'[Rg].manifest = world[Rg].manifest
            \/ /\ Rg \in DOMAIN run.desired
               /\ world'[Rg].manifest = run.desired[Rg]
  <1>1. CASE Rg \notin DOMAIN world
    <2>1. /\ world'[Rg].status = [phase |-> "new", said |-> None]
          /\ world'[Rg].manifest = run.desired[Rg]
          /\ Apply(Rg)
      BY <1>1, ResourceChange DEF ValkeyParameters, ServiceNewStatus
    <2> QED BY <1>1, <2>1 DEF HasSaid, Apply
  <1>2. CASE Rg \in DOMAIN world
    <2>1. \/ world'[Rg].status = world[Rg].status
          \/ world'[Rg].status \in Reports(Rg, world) \cup Degrades(Rg, world)
      BY <1>2, ResourceChange
    <2>2. \/ world'[Rg].manifest = world[Rg].manifest
          \/ Rg \in DOMAIN run.desired /\ world'[Rg].manifest = run.desired[Rg]
      BY <1>2, ResourceChange DEF Apply
    <2>3. HasSaid(world[Rg].status)
      BY <1>2 DEF RgHasSaid
    <2> QED BY <1>2, <2>1, <2>2, <2>3, RgReported DEF GroupInUse, Said
  <1> QED BY <1>1, <1>2

LEMMA PassOnCollectsUnused ==
  ASSUME NEW rank, ValkeyParameters, ValkeyAdvances(rank), ValkeyInv(rank),
         run' = PassOn(composite, world), UNCHANGED <<composite, world>>
  PROVE  ValkeyInv(rank)'
  <1>1. HasFields(run')
    BY PassOnFacts
  <1>2. CASE run' = NoRun
    BY <1>1, <1>2 DEF ValkeyInv, RgHasSaid, GroupsAsked, AskedOf, UsesAskedGroup,
                      CollectsUnusedGroups, GroupInUse, Said, NoRun, NoNames, HasFields
  <1>3. CASE run' # NoRun
    <2> DEFINE generated == Generate(composite, world)
               version == composite.version
    <2>1. /\ generated # Fatal
          /\ run'.generated = generated
          /\ run'.desired = Sequenced(Sequence(composite), generated, world)
          /\ run'.todo \ DOMAIN run'.desired \subseteq DOMAIN world
      BY <1>3, PassOnFacts
    <2>2. /\ DOMAIN run'.desired \subseteq DOMAIN generated
          /\ DOMAIN generated \cap DOMAIN world \subseteq DOMAIN run'.desired
          /\ \A n \in DOMAIN run'.desired : run'.desired[n] = generated[n]
      BY <2>1, SequencedFacts
    <2>3. version \in Family
      BY DEF ValkeyInv
    <2>4. /\ generated[Rg].value.version = version
          /\ generated[Rg].value.group \in Family => generated[Rg].value.group = version
          /\ \A f \in Family :
               (/\ ValkeyGroups \cap DOMAIN generated # {}
                /\ ValkeyGroup(f) \in DOMAIN world \ DOMAIN generated)
                 => f # version /\ GroupInUse(world) = version
      BY <2>1, <2>3, GeneratedGroups
    <2> HIDE DEF generated
    <2>5. GroupsAsked(rank)'
      <3>1. ASSUME Rg \in DOMAIN run'.desired
            PROVE  /\ run'.desired[Rg].value.version = version
                   /\ AskedOf(rank, run'.desired[Rg].value)
        BY <2>2, <2>3, <2>4, <3>1 DEF AskedOf, ValkeyAdvances
      <3>2. Rg \in DOMAIN world => AskedOf(rank, world[Rg].manifest.value)
        BY DEF ValkeyInv, GroupsAsked
      <3> QED BY <3>1, <3>2 DEF GroupsAsked, AskedOf
    <2>6. ASSUME NEW f \in Family, ValkeyGroup(f) \in run'.todo \ DOMAIN run'.desired,
                 ValkeyGroups \cap DOMAIN generated # {}, Rg \in DOMAIN world
          PROVE  GroupInUse(world) # f /\ world[Rg].manifest.value.group # f
      <3> DEFINE asked == world[Rg].manifest.value
      <3>1. f # version /\ GroupInUse(world) = version
        BY <2>1, <2>2, <2>4, <2>6
      <3>2. /\ AskedOf(rank, asked)
            /\ rank[version] <= rank[asked.version]
        BY <2>3, <2>6, <3>1 DEF ValkeyInv, GroupsAsked, UsesAskedGroup
      <3>3. asked.version = version
        BY <2>3, <3>2 DEF AskedOf, ValkeyAdvances
      <3> QED BY <3>1, <3>2, <3>3 DEF AskedOf
    <2> QED BY <1>1, <2>1, <2>5, <2>6
            DEF ValkeyInv, RgHasSaid, UsesAskedGroup, CollectsUnusedGroups, GroupInUse, Said
  <1> QED BY <1>2, <1>3

\* However the step leaves the pass, the replication group goes on as asked.
LEMMA RgStep ==
  ASSUME NEW rank, ValkeyParameters, ValkeyAdvances(rank), ResourcesHaveFields,
         ValkeyInv(rank), [Next]_vars, run'.desired = run.desired \/ run' = NoRun
  PROVE  /\ composite'.version \in Family
         /\ RgHasSaid'
         /\ GroupsAsked(rank)'
         /\ UsesAskedGroup(rank)'
  <1>1. /\ composite'.version \in Family
        /\ rank[composite.version] <= rank[composite'.version]
    <2>1. UNCHANGED composite \/ composite' \in Edits(composite)
      BY DEF Next, vars, Reconcile, GarbageCollect, Apply, Report, Remove, Edit, Degrade,
             Lose, Abort
    <2> QED BY <2>1 DEF ValkeyInv, ValkeyAdvances
  <1>2. ASSUME NEW asked, AskedOf(rank, asked)
        PROVE  AskedOf(rank, asked)'
    BY <1>1, <1>2 DEF AskedOf, ValkeyInv, ValkeyAdvances
  <1>3. GroupsAsked(rank)'
    <2>1. CASE run'.desired = run.desired
      <3>1. ASSUME Rg \in DOMAIN world'
            PROVE  /\ AskedOf(rank, world'[Rg].manifest.value)
                   /\ Rg \in DOMAIN run.desired =>
                        rank[world'[Rg].manifest.value.version]
                          <= rank[run.desired[Rg].value.version]
        BY <3>1, RgChange DEF ValkeyInv, GroupsAsked, AskedOf, ValkeyAdvances
      <3> QED BY <1>2, <2>1, <3>1 DEF ValkeyInv, GroupsAsked
    <2>2. CASE run' = NoRun
      <3>1. Rg \in DOMAIN world' => AskedOf(rank, world'[Rg].manifest.value)
        BY RgChange DEF ValkeyInv, GroupsAsked
      <3>2. Rg \notin DOMAIN run'.desired
        BY <2>2 DEF NoRun, NoNames
      <3> QED BY <1>2, <3>1, <3>2 DEF GroupsAsked
    <2> QED BY <2>1, <2>2
  <1>4. UsesAskedGroup(rank)'
    <2> SUFFICES ASSUME GroupInUse(world') \in Family
                 PROVE  rank[GroupInUse(world')] <= rank[world'[Rg].manifest.value.version]
      BY DEF UsesAskedGroup
    <2>1. Rg \in DOMAIN world'
      BY FamilyAssumption DEF GroupInUse, Said
    <2>2. /\ Rg \in DOMAIN world
          /\ \/ GroupInUse(world') = GroupInUse(world)
             \/ GroupInUse(world') = world[Rg].manifest.value.group
      BY <2>1, RgChange, FamilyAssumption DEF ValkeyInv, GroupInUse, Said
    <2>3. /\ world[Rg].manifest.value.version \in Family
          /\ rank[GroupInUse(world')] <= rank[world[Rg].manifest.value.version]
      BY <2>2 DEF ValkeyInv, GroupsAsked, AskedOf, UsesAskedGroup, ValkeyAdvances
    <2>4. \/ world'[Rg].manifest = world[Rg].manifest
          \/ /\ Rg \in DOMAIN run.desired
             /\ world'[Rg].manifest = run.desired[Rg]
      BY <2>1, RgChange DEF ValkeyInv
    <2>5. /\ world'[Rg].manifest.value.version \in Family
          /\ rank[world[Rg].manifest.value.version]
               <= rank[world'[Rg].manifest.value.version]
      BY <2>2, <2>3, <2>4 DEF ValkeyInv, GroupsAsked, AskedOf, ValkeyAdvances
    <2> QED BY <2>3, <2>5 DEF ValkeyAdvances
  <1>5. RgHasSaid'
    BY RgChange DEF ValkeyInv, RgHasSaid
  <1> QED BY <1>1, <1>3, <1>4, <1>5

LEMMA CollectsUnusedStep ==
  ASSUME ValkeyParameters, ResourcesHaveFields, RgHasSaid, CollectsUnusedGroups,
         [Next]_vars, run'.generated = run.generated, run'.desired = run.desired,
         run'.todo \subseteq run.todo
  PROVE  CollectsUnusedGroups'
  <1> SUFFICES ASSUME NEW f \in Family, ValkeyGroup(f) \in run.todo \ DOMAIN run.desired,
                      ValkeyGroups \cap DOMAIN run.generated # {}, Rg \in DOMAIN world'
               PROVE  GroupInUse(world') # f /\ world'[Rg].manifest.value.group # f
    BY DEF CollectsUnusedGroups, GroupInUse, Said
  <1>1. Rg \in DOMAIN world /\ world'[Rg].manifest = world[Rg].manifest
    BY CollectionComesFirst
  <1>2. GroupInUse(world) # f /\ world[Rg].manifest.value.group # f
    BY <1>1 DEF CollectsUnusedGroups
  <1> QED BY <1>1, <1>2, RgChange, FamilyAssumption

LEMMA ValkeyStep ==
  ASSUME NEW rank, ValkeyParameters, ValkeyAdvances(rank), ResourcesHaveFields,
         ValkeyInv(rank), [Next]_vars
  PROVE  ValkeyInv(rank)'
  <1>1. CASE Reconcile
    BY <1>1, PassOnCollectsUnused DEF Reconcile
  <1>2. CASE run' = NoRun
    <2>1. HasFields(run') /\ CollectsUnusedGroups'
      BY <1>2 DEF NoRun, HasFields, CollectsUnusedGroups
    <2> QED BY <1>2, <2>1, RgStep DEF ValkeyInv, HasFields
  <1>3. CASE /\ HasFields(run') /\ run'.generated = run.generated
             /\ run'.desired = run.desired /\ run'.todo \subseteq run.todo
    <2>1. CollectsUnusedGroups'
      BY <1>3, CollectsUnusedStep DEF ValkeyInv
    <2> QED BY <1>3, <2>1, RgStep DEF ValkeyInv, HasFields
  <1> QED BY <1>1, <1>2, <1>3, RunChange DEF ValkeyInv

\* The step that ValkeyGroupInUseStays allows.
KeepsGroupInUse ==
  \A f \in Family :
    (/\ run' # run
     /\ ValkeyGroup(f) \in DOMAIN world \cap DOMAIN world'
     /\ ~world[ValkeyGroup(f)].deleting /\ world'[ValkeyGroup(f)].deleting
     /\ ValkeyGroups \cap DOMAIN run.generated # {})
      => GroupInUse(world) # f

\* As long as versions only go forward, a pass that composes parameter groups
\* deletes none that is in use by then, however long ago it read which one was,
\* and however the parameters come and go.
THEOREM ValkeyKeepsGroupInUse ==
  ASSUME ValkeyParameters, NEW rank, ValkeyAdvances(rank)
  PROVE  Spec => ValkeyGroupInUseStays
  <1>1. Init => ValkeyInv(rank)
    BY ValkeyInitially
  <1>2. ResourcesHaveFields /\ ValkeyInv(rank) /\ [Next]_vars => ValkeyInv(rank)'
    BY ValkeyStep
  <1>3. ResourcesHaveFields /\ ValkeyInv(rank) /\ [Next]_vars => [KeepsGroupInUse]_vars
    <2> SUFFICES ASSUME ResourcesHaveFields, ValkeyInv(rank), [Next]_vars, NEW f \in Family,
                        run' # run, ValkeyGroup(f) \in DOMAIN world \cap DOMAIN world',
                        ~world[ValkeyGroup(f)].deleting, world'[ValkeyGroup(f)].deleting,
                        ValkeyGroups \cap DOMAIN run.generated # {}
                 PROVE  GroupInUse(world) # f
      BY DEF KeepsGroupInUse
    <2>1. ValkeyGroup(f) \in run.todo \ DOMAIN run.desired
      BY DeletedByPass
    <2>2. Rg \notin DOMAIN world => GroupInUse(world) = None
      BY DEF GroupInUse, Said
    <2> QED BY <2>1, <2>2, FamilyAssumption DEF ValkeyInv, CollectsUnusedGroups
  <1>4. [KeepsGroupInUse]_vars
          <=> [\A f \in Family :
                 (/\ run' # run
                  /\ ValkeyGroup(f) \in DOMAIN world \cap DOMAIN world'
                  /\ ~world[ValkeyGroup(f)].deleting /\ world'[ValkeyGroup(f)].deleting
                  /\ ValkeyGroups \cap DOMAIN run.generated # {})
                   => GroupInUse(world) # f]_vars
    BY DEF KeepsGroupInUse
  <1> QED BY <1>1, <1>2, <1>3, <1>4, FieldsAlways, PTL DEF Spec, ValkeyGroupInUseStays

--------------------------------------------------------------------------------
(***************************************************************************)
(* RabbitMQBroker and its configurations: the same argument, with the      *)
(* configuration itself in the place of the version.                       *)
(***************************************************************************)

ConfigurationAskedOf(rank, asked) ==
  asked.configuration \in EngineVersion =>
    /\ composite.data # None
    /\ rank[asked.configuration] <= rank[composite.version]

\* One asks for a configuration no earlier than the other's.
NoEarlier(rank, asked, other) ==
  other.configuration \in EngineVersion =>
    /\ asked.configuration \in EngineVersion
    /\ rank[other.configuration] <= rank[asked.configuration]

ConfigurationsAsked(rank) ==
  /\ Broker \in DOMAIN world => ConfigurationAskedOf(rank, world[Broker].manifest.value)
  /\ Broker \in DOMAIN run.desired => ConfigurationAskedOf(rank, run.desired[Broker].value)
  /\ Broker \in DOMAIN world \cap DOMAIN run.desired =>
       NoEarlier(rank, run.desired[Broker].value, world[Broker].manifest.value)

UsesAskedConfiguration(rank) ==
  ConfigurationInUse(world) \in EngineVersion =>
    /\ world[Broker].manifest.value.configuration \in EngineVersion
    /\ rank[ConfigurationInUse(world)] <= rank[world[Broker].manifest.value.configuration]

\* There are configurations only where one is given.
ConfigurationsAreGiven ==
  Configurations \cap (DOMAIN world \cup DOMAIN run.desired) # {} => composite.data # None

CollectsUnusedConfigurations ==
  \A v \in EngineVersion :
    (Configuration(v) \in run.todo \ DOMAIN run.desired /\ Broker \in DOMAIN world)
      => /\ ConfigurationInUse(world) # v
         /\ world[Broker].manifest.value.configuration # v

ConfigurationInv(rank) ==
  /\ HasFields(run)
  /\ composite.version \in EngineVersion
  /\ BrokerHasSaid
  /\ ConfigurationsAsked(rank)
  /\ UsesAskedConfiguration(rank)
  /\ ConfigurationsAreGiven
  /\ CollectsUnusedConfigurations

LEMMA ConfigurationNames ==
  /\ Configurations \cap ({Broker, Credentials} \cup BrokerSecurity) = {}
  /\ \A v, w : Configuration(v) = Configuration(w) => v = w
  BY DEF Configurations, Configuration, Broker, Credentials, BrokerSecurity

\* What generate asks of the broker, and which configurations it leaves out.
LEMMA GeneratedConfigurations ==
  ASSUME RabbitParameters, NEW c, c.version \in EngineVersion, NEW observed,
         Generate(c, observed) # Fatal
  PROVE  LET generated == Generate(c, observed)
         IN /\ generated[Broker].value.configuration
                 = IF c.data = None THEN None ELSE c.version
            /\ Configurations \cap DOMAIN generated # {} => c.data # None
            /\ \A v \in EngineVersion :
                 (c.data # None /\ Configuration(v) \in DOMAIN observed \ DOMAIN generated)
                   => v # c.version /\ ConfigurationInUse(observed) = c.version
  <1> DEFINE configurations ==
               IF c.data = None THEN {}
               ELSE {Configuration(c.version)} \cup keepStaleConfigurations(c.version, observed)
             security == IF c.public THEN {} ELSE BrokerSecurity
             names == {Broker, Credentials} \cup configurations \cup security
  <1>1. Generate(c, observed)
          = [n \in names |->
               CASE n = Broker -> Asked(c, buildBroker(c, observed))
                 [] n = Credentials -> Asked(c, BrokerPassword(observed))
                 [] n = Configuration(c.version) -> Asked(c, c.data)
                 [] n \in Configurations \ {Configuration(c.version)} ->
                      observed[n].manifest
                 [] OTHER -> Asked(c, None)]
    BY DEF RabbitParameters, RabbitGenerate
  <1>2. Configurations \cap names = Configurations \cap configurations
    BY ConfigurationNames
  <1>3. ASSUME NEW v \in EngineVersion, c.data # None,
               Configuration(v) \in DOMAIN observed, Configuration(v) \notin names
        PROVE  v # c.version /\ ConfigurationInUse(observed) = c.version
    <2>1. Configuration(v) \in Configurations
      BY DEF Configurations
    <2>2. /\ Configuration(v) # Configuration(c.version)
          /\ Configuration(v) \notin keepStaleConfigurations(c.version, observed)
      BY <1>3
    <2>3. brokerSwitchedToConfiguration(c.version, observed)
      BY <1>3, <2>1, <2>2 DEF keepStaleConfigurations
    <2> QED BY <2>2, <2>3 DEF brokerSwitchedToConfiguration
  <1>4. Broker \in names
    OBVIOUS
  <1>5. configurations # {} => c.data # None
    OBVIOUS
  <1> HIDE DEF names, configurations
  <1>6. Generate(c, observed)[Broker] = Asked(c, buildBroker(c, observed))
    BY <1>1, <1>4, DifferentRabbitNames DEF Broker, Configuration
  <1>7. Asked(c, buildBroker(c, observed)).value.configuration
          = IF c.data = None THEN None ELSE c.version
    BY DEF Asked, buildBroker
  <1> QED BY <1>1, <1>2, <1>3, <1>5, <1>6, <1>7

\* The broker goes on using the configuration it used, or the one asked for.
LEMMA BrokerUses ==
  ASSUME RabbitParameters, Broker \in DOMAIN world, HasSaid(world[Broker].status),
         NEW s \in Reports(Broker, world) \cup Degrades(Broker, world)
  PROVE  /\ HasSaid(s)
         /\ \/ s.said = world[Broker].status.said
            \/ s.said.configuration
                 = IF world[Broker].manifest.value.configuration = None
                     THEN ConfigurationInUse(world)
                     ELSE world[Broker].manifest.value.configuration
  <1> DEFINE old == world[Broker].status
             down == [old EXCEPT !.phase = "down"]
             asked == world[Broker].manifest.value
             configuration == IF asked.configuration = None
               THEN ConfigurationInUse(world) ELSE asked.configuration
  <1>1. HasSaid(down) /\ down.said = old.said
    BY PhaseChange
  <1>2. CASE s \in Degrades(Broker, world)
    <2>1. s \in ServiceDegrades(Broker, world)
      BY <1>2, DifferentRabbitNames DEF RabbitParameters
    <2> QED BY <2>1, DegradedSays
  <1>3. CASE s \in Reports(Broker, world)
    <2> DEFINE password == IF Said(Broker, world) = None THEN ManifestValue(Credentials, world)
                             ELSE Said(Broker, world).password
               missing == configuration # None
                            /\ Said(Configuration(configuration), world) = None
               revision == CASE configuration = None -> None
                 [] configuration # None /\ asked.revision # None -> asked.revision
                 [] OTHER -> Said(Configuration(configuration), world)
               says == [configuration |-> configuration, revision |-> revision,
                        password |-> password]
               needed == BrokerSecurity \cap DOMAIN world
    <2>1. s \in BrokerReports(world)
      <3>1. RabbitReports(Broker, world) = BrokerReports(world)
        BY DifferentRabbitNames DEF RabbitReports
      <3> QED BY <1>3, <3>1, DifferentRabbitNames DEF RabbitParameters
    <2>2. s \in IF missing \/ password = None THEN {down}
               ELSE Provided(Broker, world, needed, says)
      BY <2>1 DEF BrokerReports
    <2>3. says.configuration = configuration
      OBVIOUS
    <2> HIDE DEF missing, needed, says, down, password
    <2>4. s = down \/ (HasSaid(s) /\ (s.said = says \/ s.said = old.said))
      <3>1. s = down \/ s \in Provided(Broker, world, needed, says)
        BY <2>2
      <3> HIDE DEF configuration
      <3> QED BY <3>1, ProvidedSays
    <2>5. HasSaid(s) /\ (s.said = old.said \/ s.said.configuration = configuration)
      <3> HIDE DEF configuration
      <3> QED BY <1>1, <2>3, <2>4
    <2> QED BY <2>5
  <1> QED BY <1>2, <1>3

LEMMA ConfigurationInitially ==
  ASSUME NEW rank, RabbitAdvances(rank), Init
  PROVE  ConfigurationInv(rank)
  <1>1. composite.version \in EngineVersion
    BY DEF Init, RabbitAdvances
  <1>2. DOMAIN world = {} /\ DOMAIN run.desired = {} /\ run.todo = {} /\ HasFields(run)
    BY DEF Init, NoRun, NoNames, HasFields
  <1>3. ConfigurationInUse(world) \notin EngineVersion
    BY <1>2, EngineVersionAssumption DEF ConfigurationInUse, Said
  <1> QED BY <1>1, <1>2, <1>3
          DEF ConfigurationInv, BrokerHasSaid, ConfigurationsAsked, UsesAskedConfiguration,
              ConfigurationsAreGiven, CollectsUnusedConfigurations

\* A broker, as it is after a step.
LEMMA BrokerGoesOn ==
  ASSUME RabbitParameters, ResourcesHaveFields, BrokerHasSaid, [Next]_vars,
         Broker \in DOMAIN world'
  PROVE  /\ HasSaid(world'[Broker].status)
         /\ \/ /\ Broker \notin DOMAIN world
               /\ ConfigurationInUse(world') = None
            \/ /\ Broker \in DOMAIN world
               /\ \/ ConfigurationInUse(world') = None
                  \/ ConfigurationInUse(world') = ConfigurationInUse(world)
                  \/ ConfigurationInUse(world') = world[Broker].manifest.value.configuration
         /\ \/ /\ Broker \in DOMAIN world
               /\ world'[Broker].manifest = world[Broker].manifest
            \/ /\ Broker \in DOMAIN run.desired
               /\ world'[Broker].manifest = run.desired[Broker]
  <1>1. CASE Broker \notin DOMAIN world
    <2>1. /\ world'[Broker].status = [phase |-> "new", said |-> None]
          /\ world'[Broker].manifest = run.desired[Broker]
          /\ Apply(Broker)
      BY <1>1, ResourceChange DEF RabbitParameters, ServiceNewStatus
    <2> QED BY <1>1, <2>1 DEF HasSaid, Apply, ConfigurationInUse, Said
  <1>2. CASE Broker \in DOMAIN world
    <2>1. \/ world'[Broker].status = world[Broker].status
          \/ world'[Broker].status \in Reports(Broker, world) \cup Degrades(Broker, world)
      BY <1>2, ResourceChange
    <2>2. \/ world'[Broker].manifest = world[Broker].manifest
          \/ Broker \in DOMAIN run.desired /\ world'[Broker].manifest = run.desired[Broker]
      BY <1>2, ResourceChange DEF Apply
    <2>3. HasSaid(world[Broker].status)
      BY <1>2 DEF BrokerHasSaid
    <2> QED BY <1>2, <2>1, <2>2, <2>3, BrokerUses DEF ConfigurationInUse, Said
  <1> QED BY <1>1, <1>2

LEMMA PassOnConfigurations ==
  ASSUME NEW rank, RabbitParameters, RabbitAdvances(rank), ConfigurationInv(rank),
         run' = PassOn(composite, world), UNCHANGED <<composite, world>>
  PROVE  ConfigurationInv(rank)'
  <1>1. HasFields(run')
    BY PassOnFacts
  <1>2. CASE run' = NoRun
    <2>1. DOMAIN run'.desired = {} /\ run'.todo = {}
      BY <1>2 DEF NoRun, NoNames
    <2> QED BY <1>1, <2>1
            DEF ConfigurationInv, BrokerHasSaid, ConfigurationsAsked, ConfigurationAskedOf,
                UsesAskedConfiguration, ConfigurationsAreGiven,
                CollectsUnusedConfigurations, ConfigurationInUse, Said, HasFields
  <1>3. CASE run' # NoRun
    <2> DEFINE generated == Generate(composite, world)
               version == composite.version
    <2>1. /\ generated # Fatal
          /\ run'.generated = generated
          /\ run'.desired = Sequenced(Sequence(composite), generated, world)
          /\ run'.todo \ DOMAIN run'.desired \subseteq DOMAIN world
      BY <1>3, PassOnFacts
    <2>2. /\ DOMAIN run'.desired \subseteq DOMAIN generated
          /\ DOMAIN generated \cap DOMAIN world \subseteq DOMAIN run'.desired
          /\ \A n \in DOMAIN run'.desired : run'.desired[n] = generated[n]
      BY <2>1, SequencedFacts
    <2>3. version \in EngineVersion
      BY DEF ConfigurationInv
    <2>4. /\ generated[Broker].value.configuration
               = IF composite.data = None THEN None ELSE version
          /\ Configurations \cap DOMAIN generated # {} => composite.data # None
          /\ \A v \in EngineVersion :
               (/\ composite.data # None
                /\ Configuration(v) \in DOMAIN world \ DOMAIN generated)
                 => v # version /\ ConfigurationInUse(world) = version
      BY <2>1, <2>3, GeneratedConfigurations
    <2> HIDE DEF generated
    <2>5. ConfigurationsAsked(rank)'
      <3>1. ASSUME Broker \in DOMAIN run'.desired
            PROVE  ConfigurationAskedOf(rank, run'.desired[Broker].value)
        BY <2>2, <2>3, <2>4, <3>1, EngineVersionAssumption
           DEF ConfigurationAskedOf, RabbitAdvances
      <3>2. ASSUME Broker \in DOMAIN run'.desired, Broker \in DOMAIN world
            PROVE  NoEarlier(rank, run'.desired[Broker].value, world[Broker].manifest.value)
        BY <2>2, <2>3, <2>4, <3>2
           DEF ConfigurationInv, ConfigurationsAsked, ConfigurationAskedOf, NoEarlier
      <3>3. Broker \in DOMAIN world => ConfigurationAskedOf(rank, world[Broker].manifest.value)
        BY DEF ConfigurationInv, ConfigurationsAsked
      <3> QED BY <3>1, <3>2, <3>3 DEF ConfigurationsAsked, ConfigurationAskedOf, NoEarlier
    <2>6. ConfigurationsAreGiven'
      BY <2>2, <2>4 DEF ConfigurationInv, ConfigurationsAreGiven
    <2>7. ASSUME NEW v \in EngineVersion, Configuration(v) \in run'.todo \ DOMAIN run'.desired,
                 Broker \in DOMAIN world
          PROVE  /\ ConfigurationInUse(world) # v
                 /\ world[Broker].manifest.value.configuration # v
      <3> DEFINE asked == world[Broker].manifest.value
      <3>1. composite.data # None
        BY <2>1, <2>7 DEF ConfigurationInv, ConfigurationsAreGiven, Configurations
      <3>2. v # version /\ ConfigurationInUse(world) = version
        BY <2>1, <2>2, <2>4, <2>7, <3>1
      <3>3. /\ asked.configuration \in EngineVersion
            /\ rank[version] <= rank[asked.configuration]
            /\ rank[asked.configuration] <= rank[version]
        BY <2>3, <2>7, <3>2
           DEF ConfigurationInv, ConfigurationsAsked, ConfigurationAskedOf,
               UsesAskedConfiguration
      <3>4. asked.configuration = version
        BY <2>3, <3>3 DEF RabbitAdvances
      <3> QED BY <3>2, <3>4
    <2> QED BY <1>1, <2>5, <2>6, <2>7
            DEF ConfigurationInv, BrokerHasSaid, UsesAskedConfiguration,
                CollectsUnusedConfigurations, ConfigurationInUse, Said
  <1> QED BY <1>2, <1>3

LEMMA ConfigurationGoesOn ==
  ASSUME NEW rank, RabbitParameters, RabbitAdvances(rank), ResourcesHaveFields,
         ConfigurationInv(rank), [Next]_vars,
         run'.desired = run.desired \/ run' = NoRun
  PROVE  /\ composite'.version \in EngineVersion
         /\ BrokerHasSaid'
         /\ ConfigurationsAsked(rank)'
         /\ UsesAskedConfiguration(rank)'
         /\ ConfigurationsAreGiven'
  <1>1. /\ composite'.version \in EngineVersion
        /\ rank[composite.version] <= rank[composite'.version]
        /\ composite.data # None => composite'.data # None
    <2>1. UNCHANGED composite \/ composite' \in Edits(composite)
      BY DEF Next, vars, Reconcile, GarbageCollect, Apply, Report, Remove, Edit, Degrade,
             Lose, Abort
    <2> QED BY <2>1 DEF ConfigurationInv, RabbitAdvances
  <1>2. ASSUME NEW asked, ConfigurationAskedOf(rank, asked)
        PROVE  ConfigurationAskedOf(rank, asked)'
    BY <1>1, <1>2 DEF ConfigurationAskedOf, ConfigurationInv, RabbitAdvances
  <1>3. DOMAIN run'.desired \subseteq DOMAIN run.desired
    BY DEF NoRun, NoNames
  <1>4. DOMAIN world' \subseteq DOMAIN world \cup DOMAIN run.desired
    BY DEF Next, vars, Reconcile, GarbageCollect, Apply, Report, Remove, Edit, Degrade,
           Lose, Abort, SetWorld
  <1>5. ConfigurationsAsked(rank)'
    <2>1. ASSUME Broker \in DOMAIN world'
          PROVE  /\ ConfigurationAskedOf(rank, world'[Broker].manifest.value)
                 /\ Broker \in DOMAIN run.desired =>
                      NoEarlier(rank, run.desired[Broker].value, world'[Broker].manifest.value)
      <3>1. CASE Broker \in DOMAIN world /\ world'[Broker].manifest = world[Broker].manifest
        BY <3>1 DEF ConfigurationInv, ConfigurationsAsked
      <3>2. CASE Broker \in DOMAIN run.desired /\ world'[Broker].manifest = run.desired[Broker]
        BY <3>2 DEF ConfigurationInv, ConfigurationsAsked, NoEarlier, RabbitAdvances
      <3> QED BY <2>1, <3>1, <3>2, BrokerGoesOn DEF ConfigurationInv
    <2>2. CASE run'.desired = run.desired
      <3>1. Broker \in DOMAIN run.desired => ConfigurationAskedOf(rank, run.desired[Broker].value)
        BY DEF ConfigurationInv, ConfigurationsAsked
      <3> QED BY <1>2, <2>1, <2>2, <3>1 DEF ConfigurationsAsked, NoEarlier
    <2>3. CASE run' = NoRun
      <3>1. Broker \notin DOMAIN run'.desired
        BY <2>3 DEF NoRun, NoNames
      <3> QED BY <1>2, <2>1, <3>1 DEF ConfigurationsAsked
    <2> QED BY <2>2, <2>3
  <1>6. UsesAskedConfiguration(rank)'
    <2> DEFINE asked == world[Broker].manifest.value.configuration
               asks == world'[Broker].manifest.value.configuration
    <2> SUFFICES ASSUME ConfigurationInUse(world') \in EngineVersion
                 PROVE  asks \in EngineVersion /\ rank[ConfigurationInUse(world')] <= rank[asks]
      BY DEF UsesAskedConfiguration
    <2>1. Broker \in DOMAIN world'
      BY EngineVersionAssumption DEF ConfigurationInUse, Said
    <2>2. /\ Broker \in DOMAIN world
          /\ \/ ConfigurationInUse(world') = ConfigurationInUse(world)
             \/ ConfigurationInUse(world') = asked
      BY <2>1, BrokerGoesOn, EngineVersionAssumption DEF ConfigurationInv
    <2>3. /\ asked \in EngineVersion
          /\ rank[ConfigurationInUse(world')] <= rank[asked]
      BY <2>2 DEF ConfigurationInv, UsesAskedConfiguration, RabbitAdvances
    <2>4. \/ world'[Broker].manifest = world[Broker].manifest
          \/ /\ Broker \in DOMAIN run.desired
             /\ world'[Broker].manifest = run.desired[Broker]
      BY <2>1, BrokerGoesOn DEF ConfigurationInv
    <2>5. asks \in EngineVersion /\ rank[asked] <= rank[asks]
      BY <2>2, <2>3, <2>4 DEF ConfigurationInv, ConfigurationsAsked, NoEarlier, RabbitAdvances
    <2> QED BY <2>3, <2>5 DEF RabbitAdvances
  <1>7. BrokerHasSaid'
    BY BrokerGoesOn DEF ConfigurationInv, BrokerHasSaid
  <1>8. ConfigurationsAreGiven'
    BY <1>1, <1>3, <1>4 DEF ConfigurationInv, ConfigurationsAreGiven
  <1> QED BY <1>1, <1>5, <1>6, <1>7, <1>8

LEMMA CollectsConfigurationsStep ==
  ASSUME RabbitParameters, ResourcesHaveFields, BrokerHasSaid,
         CollectsUnusedConfigurations, [Next]_vars, run'.desired = run.desired,
         run'.todo \subseteq run.todo
  PROVE  CollectsUnusedConfigurations'
  <1> SUFFICES ASSUME NEW v \in EngineVersion,
                      Configuration(v) \in run.todo \ DOMAIN run.desired,
                      Broker \in DOMAIN world'
               PROVE  /\ ConfigurationInUse(world') # v
                      /\ world'[Broker].manifest.value.configuration # v
    BY DEF CollectsUnusedConfigurations, ConfigurationInUse, Said
  <1>1. Broker \in DOMAIN world /\ world'[Broker].manifest = world[Broker].manifest
    BY CollectionComesFirst
  <1>2. ConfigurationInUse(world) # v /\ world[Broker].manifest.value.configuration # v
    BY <1>1 DEF CollectsUnusedConfigurations
  <1> QED BY <1>1, <1>2, BrokerGoesOn, EngineVersionAssumption

LEMMA ConfigurationStep ==
  ASSUME NEW rank, RabbitParameters, RabbitAdvances(rank), ResourcesHaveFields,
         ConfigurationInv(rank), [Next]_vars
  PROVE  ConfigurationInv(rank)'
  <1>1. CASE Reconcile
    BY <1>1, PassOnConfigurations DEF Reconcile
  <1>2. CASE run' = NoRun
    <2>1. HasFields(run') /\ CollectsUnusedConfigurations'
      BY <1>2 DEF NoRun, HasFields, CollectsUnusedConfigurations
    <2> QED BY <1>2, <2>1, ConfigurationGoesOn DEF ConfigurationInv, HasFields
  <1>3. CASE /\ HasFields(run') /\ run'.desired = run.desired
             /\ run'.todo \subseteq run.todo
    <2>1. CollectsUnusedConfigurations'
      BY <1>3, CollectsConfigurationsStep DEF ConfigurationInv
    <2> QED BY <1>3, <2>1, ConfigurationGoesOn DEF ConfigurationInv, HasFields
  <1> QED BY <1>1, <1>2, <1>3, RunChange DEF ConfigurationInv

\* The step that ConfigurationInUseStays allows.
KeepsConfigurationInUse ==
  \A v \in EngineVersion :
    (/\ run' # run
     /\ Configuration(v) \in DOMAIN world \cap DOMAIN world'
     /\ ~world[Configuration(v)].deleting /\ world'[Configuration(v)].deleting)
      => ConfigurationInUse(world) # v

\* As long as engine versions only go forward, the controller never deletes a
\* Configuration that its broker uses by then, however late the call.
THEOREM RabbitKeepsConfigurationInUse ==
  ASSUME RabbitParameters, NEW rank, RabbitAdvances(rank)
  PROVE  Spec => ConfigurationInUseStays
  <1>1. Init => ConfigurationInv(rank)
    BY ConfigurationInitially
  <1>2. ResourcesHaveFields /\ ConfigurationInv(rank) /\ [Next]_vars
          => ConfigurationInv(rank)'
    BY ConfigurationStep
  <1>3. ResourcesHaveFields /\ ConfigurationInv(rank) /\ [Next]_vars
          => [KeepsConfigurationInUse]_vars
    <2> SUFFICES ASSUME ResourcesHaveFields, ConfigurationInv(rank), [Next]_vars,
                        NEW v \in EngineVersion, run' # run,
                        Configuration(v) \in DOMAIN world \cap DOMAIN world',
                        ~world[Configuration(v)].deleting, world'[Configuration(v)].deleting
                 PROVE  ConfigurationInUse(world) # v
      BY DEF KeepsConfigurationInUse
    <2>1. Configuration(v) \in run.todo \ DOMAIN run.desired
      BY DeletedByPass
    <2>2. Broker \notin DOMAIN world => ConfigurationInUse(world) = None
      BY DEF ConfigurationInUse, Said
    <2> QED BY <2>1, <2>2, EngineVersionAssumption
            DEF ConfigurationInv, CollectsUnusedConfigurations
  <1>4. [KeepsConfigurationInUse]_vars
          <=> [\A v \in EngineVersion :
                 (/\ run' # run
                  /\ Configuration(v) \in DOMAIN world \cap DOMAIN world'
                  /\ ~world[Configuration(v)].deleting /\ world'[Configuration(v)].deleting)
                   => ConfigurationInUse(world) # v]_vars
    BY DEF KeepsConfigurationInUse
  <1> QED BY <1>1, <1>2, <1>3, <1>4, FieldsAlways, PTL DEF Spec, ConfigurationInUseStays
================================================================================
