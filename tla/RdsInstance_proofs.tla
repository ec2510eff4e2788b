---------------------------- MODULE RdsInstance_proofs -------------------------
(***************************************************************************)
(* What a rebuild and an upgrade of an RDS instance keep: for any          *)
(* versions, snapshots and names, any edits, and any order of passes,      *)
(* aborts, reports and deletions.                                          *)
(***************************************************************************)
EXTENDS RdsInstance, Composition_proofs

LEMMA DifferentNames ==
  /\ Rds # Es
  /\ {Rds, Es} \cap (Support \cup Groups) = {}
  /\ Support \cap Groups = {}
  BY SupportAssumption DEF Rds, Es, Groups, Group

LEMMA FamilyNames == Family \subseteq Version /\ {None, "named", "default"} \cap Family = {}
  BY VersionAssumption DEF Family

LEMMA GroupsOnly ==
  ASSUME NEW c, NEW observed
  PROVE  {Rds, Es} \cap applyParameterGroup(c, observed) = {}
  <1> DEFINE family == computeFamily(c, observed)
  <1>1. keepStaleParameterGroups(family, observed) \cap {Rds, Es} = {}
    BY DifferentNames DEF keepStaleParameterGroups
  <1>2. Group(family) \notin {Rds, Es}
    BY DEF Group, Rds, Es
  <1> HIDE DEF family
  <1>3. applyParameterGroup(c, observed)
          \subseteq {Group(family)} \cup keepStaleParameterGroups(family, observed)
    BY DEF applyParameterGroup, family
  <1> QED BY <1>1, <1>2, <1>3

\* The names that generate answers with.
LEMMA GeneratedNames ==
  ASSUME RdsParameters, NEW c, NEW observed, Generate(c, observed) # Fatal
  PROVE  LET names == DOMAIN Generate(c, observed)
         IN /\ Rds \in names <=> ~recreateRDS(c, observed)
            /\ Es \in names <=> buildExternalSecretIfReady(c, observed)
            /\ Groups \cap names = Groups \cap applyParameterGroup(c, observed)
  <1> DEFINE names == DOMAIN Generate(c, observed)
             groups == applyParameterGroup(c, observed)
             rds == IF recreateRDS(c, observed) THEN {} ELSE {Rds}
             es == IF buildExternalSecretIfReady(c, observed) THEN {Es} ELSE {}
  <1>1. names = Support \cup groups \cup rds \cup es
    BY DEF RdsParameters, RdsGenerate
  <1>2. {Rds, Es} \cap groups = {}
    BY GroupsOnly
  <1>3. rds \subseteq {Rds} /\ (Rds \in rds <=> ~recreateRDS(c, observed))
    OBVIOUS
  <1>4. es \subseteq {Es} /\ (Es \in es <=> buildExternalSecretIfReady(c, observed))
    OBVIOUS
  <1> HIDE DEF names, groups, rds, es
  <1>5. /\ Rds \in names <=> Rds \in rds
        /\ Es \in names <=> Es \in es
        /\ Groups \cap names = Groups \cap groups
    BY <1>1, <1>2, <1>3, <1>4, DifferentNames
  <1> QED BY <1>3, <1>4, <1>5 DEF names, groups

\* What generate says of the Instance.
LEMMA GeneratedInstance ==
  ASSUME RdsParameters, NEW c, NEW observed,
         Generate(c, observed) # Fatal, Rds \in DOMAIN Generate(c, observed)
  PROVE  /\ ~recreateRDS(c, observed)
         /\ Generate(c, observed)[Rds].snapshot = c.snapshot
  <1>1. Generate(c, observed)[Rds] = buildRDSInstance(c, observed)
    <2>1. ManifestOf(Rds, c, observed) = buildRDSInstance(c, observed)
      BY DifferentNames DEF ManifestOf
    <2> QED BY <2>1 DEF RdsParameters, RdsGenerate
  <1>2. ~recreateRDS(c, observed)
    BY GeneratedNames
  <1>3. buildRDSInstance(c, observed).snapshot = c.snapshot
    BY DEF buildRDSInstance, Blank
  <1> QED BY <1>1, <1>2, <1>3

\* What generate says of the ExternalSecret.
LEMMA GeneratedSecret ==
  ASSUME RdsParameters, NEW c, NEW observed,
         Generate(c, observed) # Fatal, Es \in DOMAIN Generate(c, observed)
  PROVE  /\ buildExternalSecretIfReady(c, observed)
         /\ Rds \in DOMAIN Generate(c, observed)
         /\ Generate(c, observed)[Es].secret = observed[Rds].status.secret
  <1>1. buildExternalSecretIfReady(c, observed)
    BY GeneratedNames
  <1>2. Rds \in DOMAIN Generate(c, observed)
    BY <1>1, GeneratedNames DEF buildExternalSecretIfReady
  <1>3. Generate(c, observed)[Es] = [Blank EXCEPT !.secret = observed[Rds].status.secret]
    <2>1. Rds \in DOMAIN observed
      BY <1>1 DEF buildExternalSecretIfReady
    <2>2. ManifestOf(Es, c, observed)
            = [Blank EXCEPT !.secret = observed[Rds].status.secret]
      BY <2>1, DifferentNames DEF ManifestOf
    <2> QED BY <2>2 DEF RdsParameters, RdsGenerate
  <1> QED BY <1>1, <1>2, <1>3 DEF Blank

--------------------------------------------------------------------------------
(***************************************************************************)
(* The RDS instances answer with what TypeCorrect asks: the family of an   *)
(* Instance is a full version, whoever chose it.                           *)
(***************************************************************************)

LEMMA FamilyIsVersion ==
  ASSUME NEW c \in RdsComposite, NEW observed,
         Rds \in DOMAIN observed => observed[Rds].status \in RdsStatus
  PROVE  computeFamily(c, observed) \in Family \cup {None}
  <1>1. Rds \in DOMAIN observed => observed[Rds].status.version \in Family \cup {None}
    BY DEF RdsStatus
  <1> QED BY <1>1 DEF computeFamily

\* generate asks for well-typed manifests, under names that it may use.
LEMMA GeneratedTypes ==
  ASSUME NEW c \in RdsComposite, NEW observed, RdsGenerate(c, observed) # Fatal,
         \A n \in DOMAIN observed : observed[n].status \in RdsStatus
  PROVE  LET generated == RdsGenerate(c, observed)
         IN DOMAIN generated \subseteq RdsName /\ generated \in [DOMAIN generated -> RdsManifest]
  <1> DEFINE family == computeFamily(c, observed)
             groups == applyParameterGroup(c, observed)
             rds == IF recreateRDS(c, observed) THEN {} ELSE {Rds}
             es == IF buildExternalSecretIfReady(c, observed) THEN {Es} ELSE {}
             names == Support \cup groups \cup rds \cup es
  <1>1. RdsGenerate(c, observed) = [n \in names |-> ManifestOf(n, c, observed)]
    BY DEF RdsGenerate
  <1>2. family \in Family \cup {None}
    BY FamilyIsVersion
  <1>3. groups \subseteq Groups
    <2>1. family # None => Group(family) \in Groups
      BY <1>2 DEF Groups
    <2>2. keepStaleParameterGroups(family, observed) \subseteq Groups
      BY DEF keepStaleParameterGroups
    <2> HIDE DEF family
    <2>3. groups = {} \/ (family # None
            /\ groups = {Group(family)} \cup keepStaleParameterGroups(family, observed))
      BY DEF applyParameterGroup, family
    <2> QED BY <2>1, <2>2, <2>3
  <1>4. names \subseteq RdsName
    BY <1>3 DEF RdsName
  <1>5. Es \in names => Rds \in DOMAIN observed
    <2>1. Es \notin Support \cup groups \cup rds
      BY DifferentNames, GroupsOnly
    <2> QED BY <2>1 DEF buildExternalSecretIfReady
  <1>6. Blank \in RdsManifest
    BY DEF Blank, RdsManifest, GroupName
  <1>7. buildRDSInstance(c, observed) \in RdsManifest
    <2> DEFINE group == CASE c.params /\ family # None -> family
                          [] ~c.params /\ c.named -> "named"
                          [] ~(c.params \/ c.named) /\ family # None -> "default"
                          [] OTHER -> None
    <2>1. group \in GroupName
      <3> HIDE DEF family
      <3> QED BY <1>2 DEF GroupName
    <2>2. buildRDSInstance(c, observed)
            = [Blank EXCEPT !.version = c.version, !.snapshot = c.snapshot,
                            !.protection = c.protection, !.group = group]
      BY DEF buildRDSInstance
    <2> HIDE DEF group
    <2>3. /\ c.version \in Version \cup {None} /\ c.snapshot \in Snapshot
          /\ c.protection \in BOOLEAN
      BY DEF RdsComposite
    <2> QED BY <1>6, <2>1, <2>2, <2>3 DEF RdsManifest
  <1>8. Rds \in DOMAIN observed
          => [Blank EXCEPT !.secret = observed[Rds].status.secret] \in RdsManifest
    <2>1. Rds \in DOMAIN observed => observed[Rds].status.secret \in Arn \cup {None}
      BY DEF RdsStatus
    <2> QED BY <1>6, <2>1 DEF RdsManifest
  <1> HIDE DEF names
  <1>9. ASSUME NEW n \in names
        PROVE  ManifestOf(n, c, observed) \in RdsManifest
    BY <1>5, <1>6, <1>7, <1>8, DifferentNames DEF ManifestOf
  <1> QED BY <1>1, <1>4, <1>9

LEMMA StatusTypes ==
  ASSUME NEW n, NEW observed, n \in DOMAIN observed, observed[n].status \in RdsStatus
  PROVE  RdsReports(n, observed) \cup RdsDegrades(n, observed) \subseteq RdsStatus
  <1>1. \A phase \in {"up", "down"} : [observed[n].status EXCEPT !.phase = phase] \in RdsStatus
    BY DEF RdsStatus
  <1>2. [observed[n].status EXCEPT !.active = FALSE] \in RdsStatus
    BY DEF RdsStatus
  <1>3. n = Rds => InstanceReports(observed) \subseteq RdsStatus
    BY <1>1 DEF InstanceReports
  <1> QED BY <1>1, <1>2, <1>3 DEF RdsReports, RdsDegrades

LEMMA RdsTypes ==
  ASSUME RdsParameters
  PROVE  HandlerTypes
  <1>1. \A c \in Composite : Edits(c) \subseteq Composite
    BY DEF RdsParameters, RdsEdits
  <1>2. ASSUME NEW observed, IsMap(observed, Resource)
        PROVE  \A n \in DOMAIN observed : /\ observed[n].manifest \in RdsManifest
                                          /\ observed[n].status \in RdsStatus
    BY <1>2 DEF IsMap, Resource, RdsParameters
  <1>3. ASSUME NEW c \in Composite, NEW observed, IsMap(observed, Resource),
               Generate(c, observed) # Fatal
        PROVE  IsMap(Generate(c, observed), Manifest)
    BY <1>2, <1>3, GeneratedTypes DEF RdsParameters, IsMap
  <1>4. ASSUME NEW n \in Name, NEW observed, IsMap(observed, Resource), n \in DOMAIN observed
        PROVE  Reports(n, observed) \cup Degrades(n, observed) \subseteq Status
    BY <1>2, <1>4, StatusTypes DEF RdsParameters
  <1> QED BY <1>1, <1>3, <1>4 DEF HandlerTypes

\* Every state of an RDS instance is well typed: no family, group or secret is
\* ever made up of what is not there.
THEOREM RdsTypeCorrect ==
  ASSUME RdsParameters
  PROVE  Spec => []TypeOK
  BY RdsTypes, TypeCorrect

--------------------------------------------------------------------------------
(***************************************************************************)
(* The snapshot an Instance is built from.                                 *)
(***************************************************************************)

\* A pass that asks for the Instance asks for the snapshot that it has.
RebuildInv ==
  /\ HasFields(run)
  /\ Rds \in DOMAIN run.desired => run.desired[Rds].snapshot \in Snapshot
  /\ Rds \in DOMAIN run.desired \cap DOMAIN world
       => world[Rds].manifest.snapshot = run.desired[Rds].snapshot

\* What a pass that asks for the Instance asks of it.
LEMMA PassOnInstance ==
  ASSUME RdsParameters, NEW c \in Composite, NEW observed,
         Rds \in DOMAIN PassOn(c, observed).desired
  PROVE  LET snapshot == PassOn(c, observed).desired[Rds].snapshot
         IN /\ snapshot \in Snapshot
            /\ snapshot = c.snapshot
            /\ Rds \in DOMAIN observed => observed[Rds].manifest.snapshot = snapshot
  <1> DEFINE r == PassOn(c, observed)
  <1>1. r # NoRun
    BY DEF NoRun, NoNames
  <1>2. /\ Generate(c, observed) # Fatal
        /\ r.generated = Generate(c, observed)
        /\ r.desired = Sequenced(Sequence(c), r.generated, observed)
    BY <1>1, PassOnFacts
  <1> HIDE DEF r
  <1>3. Rds \in DOMAIN r.generated /\ r.desired[Rds] = r.generated[Rds]
    BY <1>2, SequencedFacts DEF r
  <1>4. /\ ~recreateRDS(c, observed)
        /\ r.desired[Rds].snapshot = c.snapshot
    BY <1>2, <1>3, GeneratedInstance
  <1>5. c.snapshot \in Snapshot
    BY DEF RdsParameters, RdsComposite
  <1> QED BY <1>4, <1>5 DEF recreateRDS, r

LEMMA RebuildStep ==
  ASSUME RdsParameters, TypeOK, ResourcesHaveFields, RebuildInv, [Next]_vars
  PROVE  RebuildInv'
  <1>1. CASE Reconcile
    <2>1. run' = PassOn(composite, world) /\ world' = world
      BY <1>1 DEF Reconcile
    <2>2. HasFields(run)'
      BY <2>1, PassOnFacts DEF HasFields
    <2>3. composite \in Composite
      BY DEF TypeOK
    <2> QED BY <2>1, <2>2, <2>3, PassOnInstance DEF RebuildInv
  <1>2. CASE run' = NoRun
    BY <1>2 DEF NoRun, NoNames, RebuildInv, HasFields
  <1>3. CASE HasFields(run') /\ run'.desired = run.desired
    <2>1. ASSUME Rds \in DOMAIN run.desired, Rds \in DOMAIN world'
          PROVE  world'[Rds].manifest.snapshot = run.desired[Rds].snapshot
      BY <2>1, ResourceChange DEF RebuildInv
    <2> QED BY <1>3, <2>1 DEF RebuildInv, HasFields
  <1> QED BY <1>1, <1>2, <1>3, RunChange DEF RebuildInv

LEMMA RebuildInitially == Init => RebuildInv
  BY DEF Init, RebuildInv, HasFields, NoRun, NoNames

Snapshots == {world[n].manifest.snapshot : n \in {Rds} \cap DOMAIN world}

\* What a step does to the Instance there is is a step of Exclusive, or none.
LEMMA DataChange ==
  ASSUME TypeOK, ResourcesHaveFields, RebuildInv, [Next]_vars
  PROVE  [Data!Next]_Snapshots
  <1>1. CASE Rds \in DOMAIN world /\ Rds \in DOMAIN world'
    <2>1. world'[Rds].manifest.snapshot = world[Rds].manifest.snapshot
      <3>1. Apply(Rds) => Rds \in DOMAIN run.desired
        BY DEF Apply
      <3> QED BY <1>1, <3>1, ResourceChange DEF RebuildInv
    <2> QED BY <1>1, <2>1 DEF Snapshots
  <1>2. CASE Rds \in DOMAIN world /\ Rds \notin DOMAIN world'
    <2>1. Snapshots # {} /\ Snapshots' = {}
      BY <1>2 DEF Snapshots
    <2> QED BY <2>1 DEF Data!Next, Data!Leave, Snapshots
  <1>3. CASE Rds \notin DOMAIN world /\ Rds \in DOMAIN world'
    <2>1. /\ Rds \in DOMAIN run.desired
          /\ world'[Rds].manifest = run.desired[Rds]
      BY <1>3, ResourceChange DEF Apply
    <2>2. Snapshots = {} /\ Snapshots' = {run.desired[Rds].snapshot}
      BY <1>3, <2>1 DEF Snapshots
    <2>3. run.desired[Rds].snapshot \in Snapshot
      BY <2>1 DEF RebuildInv
    <2> QED BY <2>2, <2>3 DEF Data!Next, Data!Take, Snapshots
  <1>4. CASE Rds \notin DOMAIN world /\ Rds \notin DOMAIN world'
    BY <1>4 DEF Snapshots
  <1> QED BY <1>1, <1>2, <1>3, <1>4

\* The data of an Instance implements Exclusive: it is made from one snapshot
\* and stays with it until the Instance is gone.
THEOREM InstancesAreRebuilt ==
  ASSUME RdsParameters
  PROVE  Spec => RebuiltFromScratch
  <1>1. TypeOK /\ ResourcesHaveFields /\ RebuildInv /\ [Next]_vars => RebuildInv'
    BY RebuildStep
  <1>2. Init => Data!Init
    BY DEF Init, Data!Init, NoNames
  <1>3. TypeOK /\ ResourcesHaveFields /\ RebuildInv /\ [Next]_vars => [Data!Next]_Snapshots
    BY DataChange
  <1>4. [Data!Next]_Snapshots
          <=> [Data!Next]_{world[n].manifest.snapshot : n \in {Rds} \cap DOMAIN world}
    BY DEF Snapshots
  <1> QED BY <1>1, <1>2, <1>3, <1>4, RebuildInitially, RdsTypeCorrect,
          FieldsAlways, PTL
          DEF Spec, RebuiltFromScratch, Data!Spec

--------------------------------------------------------------------------------
(***************************************************************************)
(* The ExternalSecret.  That it copies the secret of the Instance is not   *)
(* inductive: an Instance that a pass is about to make would find the      *)
(* ExternalSecret of another, and an ExternalSecret that is about to be    *)
(* made goes by what the Instance reported when the pass began.            *)
(***************************************************************************)

\* What can be read has an ARN, and so has what copies it.
SecretsHaveArns ==
  /\ (Rds \in DOMAIN world /\ world[Rds].status.active)
       => world[Rds].status.secret \in Arn
  /\ Es \in DOMAIN world => world[Es].manifest.secret \in Arn

\* An ExternalSecret is asked for only along with an Instance that was read, and
\* an Instance that was read only as it was made.
SecretAskedFor ==
  /\ Es \in DOMAIN run.desired =>
       /\ Rds \in DOMAIN run.desired \cap DOMAIN run.observed
       /\ run.desired[Es].secret = run.observed[Rds].status.secret
       /\ run.desired[Es].secret \in Arn
  /\ Rds \in DOMAIN run.desired \cap DOMAIN run.observed =>
       run.observed[Rds].manifest.snapshot = run.desired[Rds].snapshot

\* Whoever makes an Instance where none was read first does away with the
\* ExternalSecret of another.
SecretMakesWay ==
  (/\ Rds \in (run.todo \cap DOMAIN run.desired) \ DOMAIN run.observed
   /\ Es \in DOMAIN world
   /\ ~world[Es].deleting)
    => Es \in run.todo \ DOMAIN run.desired

SecretInv ==
  /\ RebuildInv
  /\ SecretsHaveArns
  /\ SecretAskedFor
  /\ SecretMakesWay

LEMMA SecretInitially == Init => SecretInv
  BY RebuildInitially
     DEF Init, SecretInv, SecretsHaveArns, SecretAskedFor, SecretMakesWay, NoRun, NoNames

\* What a new pass asks of the ExternalSecret, and does about the one there is.
LEMMA PassOnSecret ==
  ASSUME RdsParameters, TypeOK, ResourcesHaveFields, SecretInv, run' = PassOn(composite, world),
         world' = world
  PROVE  SecretAskedFor' /\ SecretMakesWay'
  <1> DEFINE r == PassOn(composite, world)
  <1>1. CASE r = NoRun
    BY <1>1 DEF NoRun, NoNames, SecretAskedFor, SecretMakesWay
  <1>2. CASE r # NoRun
    <2>1. /\ Generate(composite, world) # Fatal
          /\ r.observed = world
          /\ r.generated = Generate(composite, world)
          /\ r.desired = Sequenced(Sequence(composite), r.generated, world)
          /\ r.todo \ DOMAIN r.desired
               = {n \in DOMAIN world \ DOMAIN r.desired : ~world[n].deleting}
      BY <1>2, PassOnFacts
    <2>2. composite \in Composite
      BY DEF TypeOK
    <2> HIDE DEF r
    <2>3. ASSUME Rds \in DOMAIN r.desired, Rds \in DOMAIN world
          PROVE  world[Rds].manifest.snapshot = r.desired[Rds].snapshot
      BY <2>2, <2>3, PassOnInstance DEF r
    <2>4. ASSUME Es \in DOMAIN r.desired
          PROVE  /\ Rds \in DOMAIN world
                 /\ Rds \in DOMAIN r.desired
                 /\ r.desired[Es].secret = world[Rds].status.secret
                 /\ world[Rds].status.secret \in Arn
      <3>1. Es \in DOMAIN r.generated /\ r.desired[Es] = r.generated[Es]
        BY <2>1, <2>4, SequencedFacts
      <3>2. /\ buildExternalSecretIfReady(composite, world)
            /\ Rds \in DOMAIN r.generated
            /\ r.generated[Es].secret = world[Rds].status.secret
        BY <2>1, <3>1, GeneratedSecret
      <3>3. Rds \in DOMAIN world /\ world[Rds].status.active
        BY <3>2 DEF buildExternalSecretIfReady
      <3>4. Rds \in DOMAIN r.desired
        BY <2>1, <3>2, <3>3, SequencedFacts
      <3> QED BY <3>1, <3>2, <3>3, <3>4 DEF SecretInv, SecretsHaveArns
    <2>5. ASSUME Rds \notin DOMAIN world, Es \in DOMAIN world, ~world[Es].deleting
          PROVE  Es \in r.todo \ DOMAIN r.desired
      BY <2>1, <2>4, <2>5
    <2>6. run' = r
      BY DEF r
    <2> QED BY <2>1, <2>3, <2>4, <2>5, <2>6 DEF SecretAskedFor, SecretMakesWay
  <1> QED BY <1>1, <1>2

\* An Instance reports the secret that it has had since it first reported one.
LEMMA SecretStays ==
  ASSUME RdsParameters, TypeOK, Rds \in DOMAIN world,
         NEW s \in Reports(Rds, world) \cup Degrades(Rds, world)
  PROVE  LET status == world[Rds].status
         IN /\ status.secret # None => s.secret = status.secret
            /\ \/ s.secret \in Arn
               \/ s.secret = status.secret /\ (s.active => status.active)
  <1> DEFINE status == world[Rds].status
  <1>1. status \in RdsStatus
    BY DEF TypeOK, IsMap, Resource, RdsParameters
  <1>2. CASE s \in RdsDegrades(Rds, world)
    BY <1>1, <1>2 DEF RdsDegrades, RdsStatus
  <1>3. CASE s \in RdsReports(Rds, world)
    <2>1. s \in InstanceReports(world)
      BY <1>3 DEF RdsReports
    <2>2. CASE s = [status EXCEPT !.phase = "down"]
      BY <1>1, <2>2 DEF RdsStatus
    <2>3. CASE s.secret \in MasterUserSecret(world)
      BY <1>1, <2>3 DEF MasterUserSecret, RdsStatus
    <2> QED BY <2>1, <2>2, <2>3 DEF InstanceReports
  <1> QED BY <1>2, <1>3 DEF RdsParameters

LEMMA ArnsStep ==
  ASSUME RdsParameters, TypeOK, ResourcesHaveFields, SecretInv, [Next]_vars
  PROVE  SecretsHaveArns'
  <1>1. ASSUME Rds \in DOMAIN world', world'[Rds].status.active
        PROVE  world'[Rds].status.secret \in Arn
    <2>1. CASE Rds \notin DOMAIN world
      <3>1. world'[Rds].status = RdsNewStatus
        BY <1>1, <2>1, ResourceChange DEF RdsParameters
      <3> QED BY <1>1, <3>1 DEF RdsNewStatus
    <2>2. CASE Rds \in DOMAIN world
      <3>1. \/ world'[Rds].status = world[Rds].status
            \/ world'[Rds].status \in Reports(Rds, world) \cup Degrades(Rds, world)
        BY <1>1, <2>2, ResourceChange
      <3> QED BY <1>1, <2>2, <3>1, SecretStays DEF SecretInv, SecretsHaveArns
    <2> QED BY <2>1, <2>2
  <1>2. ASSUME Es \in DOMAIN world'
        PROVE  world'[Es].manifest.secret \in Arn
    <2>1. Apply(Es) => Es \in DOMAIN run.desired
      BY DEF Apply
    <2>2. \/ Es \in DOMAIN world /\ world'[Es].manifest = world[Es].manifest
          \/ Apply(Es) /\ world'[Es].manifest = run.desired[Es]
      BY <1>2, ResourceChange
    <2> QED BY <2>1, <2>2 DEF SecretInv, SecretsHaveArns, SecretAskedFor
  <1> QED BY <1>1, <1>2 DEF SecretsHaveArns

\* As a pass goes on, it does not forget to make way.
LEMMA CallsMakeWay ==
  ASSUME TypeOK, ResourcesHaveFields, SecretInv, [Next]_vars,
         run'.observed = run.observed, run'.desired = run.desired,
         run'.todo \subseteq run.todo
  PROVE  SecretMakesWay'
  <1> SUFFICES ASSUME Rds \in run'.todo, Rds \in DOMAIN run.desired \ DOMAIN run.observed,
                      Es \in DOMAIN world', ~world'[Es].deleting
               PROVE  Es \in run'.todo \ DOMAIN run.desired
    BY DEF SecretMakesWay
  <1>1. ~Apply(Es)
    BY DEF Apply, SecretInv, SecretAskedFor
  <1>2. Es \in DOMAIN world /\ ~world[Es].deleting
    BY <1>1, ResourceChange
  <1>3. Es \in run.todo \ DOMAIN run.desired
    BY <1>2 DEF SecretInv, SecretMakesWay
  <1>4. ~GarbageCollect(Es)
    <2>1. world[Es] \in Resource
      BY <1>2 DEF TypeOK, IsMap
    <2>2. world'[Es] # [world[Es] EXCEPT !.deleting = TRUE]
      BY <2>1 DEF Resource
    <2> QED BY <1>2, <2>2 DEF GarbageCollect, SetWorld
  <1>5. run' # NoRun /\ run.todo # {}
    BY <1>3 DEF NoRun
  <1>6. \/ UNCHANGED run
        \/ \E n \in Name \ {Es} : run' = Called(n)
    BY <1>1, <1>4, <1>5
       DEF Next, vars, Reconcile, GarbageCollect, Apply, Report, Remove, Edit,
           Degrade, Lose, Abort
  <1>7. ASSUME NEW n \in Name, run' = Called(n), n # Es
        PROVE  Es \in run'.todo
    BY <1>3, <1>5, <1>7, CalledFields DEF SecretInv, RebuildInv
  <1> QED BY <1>3, <1>6, <1>7

LEMMA SecretStep ==
  ASSUME RdsParameters, TypeOK, ResourcesHaveFields, SecretInv, [Next]_vars
  PROVE  SecretInv'
  <1>1. RebuildInv' /\ SecretsHaveArns'
    BY RebuildStep, ArnsStep DEF SecretInv
  <1>2. SecretAskedFor' /\ SecretMakesWay'
    <2>1. CASE Reconcile
      BY <2>1, PassOnSecret DEF Reconcile
    <2>2. CASE run' = NoRun
      BY <2>2 DEF NoRun, NoNames, SecretAskedFor, SecretMakesWay
    <2>3. CASE /\ run'.observed = run.observed /\ run'.desired = run.desired
               /\ run'.todo \subseteq run.todo
      BY <2>3, CallsMakeWay DEF SecretInv, SecretAskedFor
    <2> QED BY <2>1, <2>2, <2>3, RunChange DEF SecretInv, RebuildInv
  <1> QED BY <1>1, <1>2 DEF SecretInv

\* How an ExternalSecret comes to copy the secret of another Instance: the pass
\* asks for both and has read the Instance, and either makes it again or gives
\* the ExternalSecret what it read.
LEMMA SecretLeaves ==
  ASSUME RdsParameters, TypeOK, ResourcesHaveFields, SecretInv, [Next]_vars,
         ~SecretOfAnother, SecretOfAnother'
  PROVE  /\ Rds \in DOMAIN run.desired \cap DOMAIN run.observed
         /\ run.observed[Rds].manifest.snapshot = world'[Rds].manifest.snapshot
         /\ \/ Rds \notin DOMAIN world
            \/ /\ world'[Rds].status = world[Rds].status
               /\ world'[Es].manifest.secret = run.observed[Rds].status.secret
               /\ run.observed[Rds].status.secret \in Arn
  <1>1. /\ Rds \in DOMAIN world' /\ Es \in DOMAIN world'
        /\ ~world'[Es].deleting
        /\ world'[Es].manifest.secret # world'[Rds].status.secret
    BY DEF SecretOfAnother
  <1>2. CASE Apply(Es)
    <2>1. Es \in DOMAIN run.desired /\ world'[Es].manifest = run.desired[Es]
      BY <1>2 DEF Apply, SetWorld
    <2>2. /\ Rds \in DOMAIN run.desired \cap DOMAIN run.observed
          /\ run.desired[Es].secret = run.observed[Rds].status.secret
          /\ run.desired[Es].secret \in Arn
          /\ run.observed[Rds].manifest.snapshot = run.desired[Rds].snapshot
      BY <2>1 DEF SecretInv, SecretAskedFor
    <2>3. Rds \in DOMAIN world /\ world'[Rds] = world[Rds]
      BY <1>1, <1>2, DifferentNames DEF Apply, SetWorld
    <2>4. world[Rds].manifest.snapshot = run.desired[Rds].snapshot
      BY <2>2, <2>3 DEF SecretInv, RebuildInv
    <2> QED BY <2>1, <2>2, <2>3, <2>4
  <1>3. CASE ~Apply(Es)
    <2>1. /\ Es \in DOMAIN world /\ ~world[Es].deleting
          /\ world'[Es].manifest = world[Es].manifest
      BY <1>1, <1>3, ResourceChange
    <2>2. Rds \notin DOMAIN world
      <3> SUFFICES ASSUME Rds \in DOMAIN world
                   PROVE  FALSE
        OBVIOUS
      <3>1. world[Rds].status.secret = world[Es].manifest.secret
        BY <2>1 DEF SecretOfAnother
      <3>2. world[Rds].status.secret # None
        BY <2>1, <3>1, ArnAssumption DEF SecretInv, SecretsHaveArns
      <3>3. \/ world'[Rds].status = world[Rds].status
            \/ world'[Rds].status \in Reports(Rds, world) \cup Degrades(Rds, world)
        BY <1>1, ResourceChange
      <3>4. world'[Rds].status.secret = world[Rds].status.secret
        BY <3>2, <3>3, SecretStays
      <3> QED BY <1>1, <2>1, <3>1, <3>4
    <2>3. /\ Rds \in run.todo \cap DOMAIN run.desired
          /\ run.todo \subseteq DOMAIN run.desired
          /\ world'[Rds].manifest = run.desired[Rds]
      <3>1. Apply(Rds) /\ world'[Rds].manifest = run.desired[Rds]
        BY <1>1, <2>2, ResourceChange
      <3> QED BY <3>1 DEF Apply
    <2>4. Rds \in DOMAIN run.observed
      BY <2>1, <2>3 DEF SecretInv, SecretMakesWay
    <2> QED BY <2>2, <2>3, <2>4 DEF SecretInv, SecretAskedFor
  <1> QED BY <1>2, <1>3

\* The step that SecretLeavesWithSnapshot allows.
LeavesWithSnapshot ==
  (~SecretOfAnother /\ SecretOfAnother') =>
    /\ Rds \in DOMAIN run.observed
    /\ run.observed[Rds].manifest.snapshot = world'[Rds].manifest.snapshot

\* Through any edits, losses and aborts, only a pass that read an Instance of the
\* same snapshot leaves an ExternalSecret with the secret of another: a rebuild
\* from another snapshot never does.
THEOREM SecretsLeaveWithSnapshot ==
  ASSUME RdsParameters
  PROVE  Spec => SecretLeavesWithSnapshot
  <1>1. TypeOK /\ ResourcesHaveFields /\ SecretInv /\ [Next]_vars => SecretInv'
    BY SecretStep
  <1>2. TypeOK /\ ResourcesHaveFields /\ SecretInv /\ [Next]_vars => [LeavesWithSnapshot]_vars
    BY SecretLeaves DEF LeavesWithSnapshot
  <1>3. [LeavesWithSnapshot]_vars
          <=> [(~SecretOfAnother /\ SecretOfAnother') =>
                 /\ Rds \in DOMAIN run.observed
                 /\ run.observed[Rds].manifest.snapshot = world'[Rds].manifest.snapshot]_vars
    BY DEF LeavesWithSnapshot
  <1> QED BY <1>1, <1>2, <1>3, SecretInitially, RdsTypeCorrect, FieldsAlways,
          PTL DEF Spec, SecretLeavesWithSnapshot

--------------------------------------------------------------------------------
(***************************************************************************)
(* An Instance that nobody else deletes.  A pass that asks for one it read *)
(* then finds it as long as it goes on: what begins the deletion is a pass *)
(* that reads another snapshot than the composite's, and the composite has *)
(* left that one for good.                                                 *)
(***************************************************************************)

\* The Instance, and what is asked of it, are of a snapshot that the composite
\* has come to; one that has to go, of a snapshot it has left.
SnapshotsCome(rank) ==
  /\ Rds \in DOMAIN world =>
       /\ world[Rds].manifest.snapshot \in Snapshot
       /\ rank[world[Rds].manifest.snapshot] <= rank[composite.snapshot]
       /\ (world[Rds].deleting \/ Rds \in run.todo \ DOMAIN run.desired) =>
            world[Rds].manifest.snapshot # composite.snapshot
  /\ Rds \in DOMAIN run.desired =>
       rank[run.desired[Rds].snapshot] <= rank[composite.snapshot]

\* The Instance that a pass read and asks for is there, with the secret it had.
InstanceStays ==
  Rds \in DOMAIN run.desired \cap DOMAIN run.observed =>
    /\ Rds \in DOMAIN world
    /\ ~world[Rds].deleting
    /\ run.observed[Rds].status.secret \in Arn =>
         world[Rds].status.secret = run.observed[Rds].status.secret

LeftInv(rank) ==
  /\ SecretInv
  /\ SnapshotsCome(rank)
  /\ InstanceStays
  /\ SecretOfTheInstance

\* A deletion begins with a call of the pass, or is someone else's.
LEMMA OnlyLoseDeletes ==
  ASSUME ResourcesHaveFields, HasFields(run), [Next]_vars, run' = run,
         NEW m \in DOMAIN world \cap DOMAIN world', ~world[m].deleting, world'[m].deleting
  PROVE  m \in Losable
  <1>1. world[m] = [manifest |-> world[m].manifest, status |-> world[m].status,
                    deleting |-> world[m].deleting]
    BY DEF ResourcesHaveFields
  <1>2. ASSUME NEW n \in Name, n \in run.todo, run' = Called(n)
        PROVE  FALSE
    BY <1>2, CalledFields DEF NoRun
  <1>3. ASSUME NEW n \in Name, Report(n) \/ Degrade(n)
        PROVE  FALSE
    <2>1. world'[m] = world[m] \/ \E s : world'[m] = [world[m] EXCEPT !.status = s]
      BY <1>3 DEF Report, Degrade, SetWorld
    <2> QED BY <1>1, <2>1
  <1>4. ASSUME NEW n \in Name, Remove(n)
        PROVE  FALSE
    BY <1>4 DEF Remove, SetWorld
  <1>5. ASSUME NEW n \in Name, Lose(n)
        PROVE  m \in Losable
    BY <1>5 DEF Lose, SetWorld
  <1>6. world' # world
    OBVIOUS
  <1> QED BY <1>2, <1>3, <1>4, <1>5, <1>6
          DEF Next, vars, Reconcile, GarbageCollect, Apply, Edit, Abort

\* What is not being deleted does not go.
LEMMA OnlyDeletingIsRemoved ==
  ASSUME [Next]_vars, NEW m \in DOMAIN world, ~world[m].deleting
  PROVE  m \in DOMAIN world'
  BY DEF Next, vars, Reconcile, GarbageCollect, Apply, Report, Remove, Edit, Degrade,
         Lose, Abort, SetWorld

LEMMA LeftInitially ==
  ASSUME NEW rank, Init
  PROVE  LeftInv(rank)
  BY SecretInitially
     DEF Init, LeftInv, SnapshotsCome, InstanceStays, SecretOfTheInstance, SecretOfAnother,
         NoRun, NoNames

\* What a new pass asks of the Instance, or that it is rebuilt.
LEMMA PassOnLeft ==
  ASSUME NEW rank, RdsParameters, InstanceIsLeft(rank), TypeOK, LeftInv(rank),
         run' = PassOn(composite, world), UNCHANGED <<composite, world>>
  PROVE  SnapshotsCome(rank)' /\ InstanceStays'
  <1>1. composite \in Composite /\ composite.snapshot \in Snapshot
    BY DEF TypeOK, RdsParameters, RdsComposite
  <1>2. CASE run' = NoRun
    BY <1>2 DEF NoRun, NoNames, LeftInv, SnapshotsCome, InstanceStays
  <1>3. CASE run' # NoRun
    <2>1. /\ Generate(composite, world) # Fatal
          /\ run'.observed = world
          /\ run'.generated = Generate(composite, world)
          /\ run'.desired = Sequenced(Sequence(composite), run'.generated, world)
      BY <1>3, PassOnFacts
    <2>2. ASSUME Rds \in DOMAIN run'.desired
          PROVE  /\ run'.desired[Rds].snapshot = composite.snapshot
                 /\ Rds \in DOMAIN world =>
                      world[Rds].manifest.snapshot = composite.snapshot
      BY <1>1, <2>2, PassOnInstance
    <2>3. ASSUME Rds \in DOMAIN world, Rds \notin DOMAIN run'.desired
          PROVE  world[Rds].manifest.snapshot # composite.snapshot
      <3>1. Rds \notin DOMAIN Generate(composite, world)
        BY <2>1, <2>3, SequencedFacts
      <3>2. recreateRDS(composite, world)
        BY <2>1, <3>1, GeneratedNames
      <3> QED BY <3>2 DEF recreateRDS
    <2>4. rank[composite.snapshot] <= rank[composite.snapshot]
      BY <1>1 DEF InstanceIsLeft
    <2>5. SnapshotsCome(rank)'
      BY <2>2, <2>3, <2>4 DEF LeftInv, SnapshotsCome
    <2>6. InstanceStays'
      BY <2>1, <2>2 DEF LeftInv, SnapshotsCome, InstanceStays, TypeOK, IsMap, Resource
    <2> QED BY <2>5, <2>6
  <1> QED BY <1>2, <1>3

\* However the step leaves the pass, the composite only goes forward.
LEMMA SnapshotsGoOn ==
  ASSUME NEW rank, RdsParameters, InstanceIsLeft(rank), TypeOK, ResourcesHaveFields,
         LeftInv(rank), [Next]_vars,
         \/ run' = NoRun
         \/ run'.desired = run.desired /\ run'.todo \subseteq run.todo
  PROVE  SnapshotsCome(rank)'
  <1>1. /\ composite.snapshot \in Snapshot /\ composite'.snapshot \in Snapshot
        /\ rank[composite.snapshot] <= rank[composite'.snapshot]
    <2>1. UNCHANGED composite \/ composite' \in Edits(composite)
      BY DEF Next, vars, Reconcile, GarbageCollect, Apply, Report, Remove, Edit, Degrade,
             Lose, Abort
    <2>2. composite \in Composite /\ composite' \in Composite
      BY <2>1, RdsTypes DEF TypeOK, HandlerTypes
    <2> QED BY <2>1, <2>2 DEF RdsParameters, RdsComposite, InstanceIsLeft
  <1>2. ASSUME NEW s \in Snapshot, rank[s] <= rank[composite.snapshot]
        PROVE  /\ rank[s] <= rank[composite'.snapshot]
               /\ s # composite.snapshot => s # composite'.snapshot
    BY <1>1, <1>2 DEF InstanceIsLeft
  <1>3. run'.todo \ DOMAIN run'.desired \subseteq run.todo \ DOMAIN run.desired
    BY DEF NoRun
  <1>4. Rds \in DOMAIN run'.desired =>
          /\ run'.desired = run.desired
          /\ run.desired[Rds].snapshot \in Snapshot
    BY DEF NoRun, NoNames, LeftInv, SecretInv, RebuildInv
  <1>5. CASE Rds \in DOMAIN world /\ Rds \in DOMAIN world'
    <2>1. world'[Rds].manifest.snapshot = world[Rds].manifest.snapshot
      <3>1. Apply(Rds) => Rds \in DOMAIN run.desired
        BY DEF Apply
      <3> QED BY <1>5, <3>1, ResourceChange DEF LeftInv, SecretInv, RebuildInv
    <2>2. world'[Rds].deleting => world[Rds].deleting \/ Rds \in run.todo \ DOMAIN run.desired
      <3> SUFFICES ASSUME world'[Rds].deleting, ~world[Rds].deleting
                   PROVE  Rds \in run.todo \ DOMAIN run.desired
        OBVIOUS
      <3>1. CASE run' # run
        BY <1>5, <3>1, DeletedByPass
      <3>2. CASE run' = run
        BY <1>5, <3>2, OnlyLoseDeletes
           DEF InstanceIsLeft, LeftInv, SecretInv, RebuildInv
      <3> QED BY <3>1, <3>2
    <2> QED BY <1>2, <1>3, <1>4, <1>5, <2>1, <2>2 DEF LeftInv, SnapshotsCome
  <1>6. CASE Rds \notin DOMAIN world /\ Rds \in DOMAIN world'
    <2>1. /\ Rds \in DOMAIN run.desired /\ Rds \in run.todo
          /\ run.todo \subseteq DOMAIN run.desired
          /\ world'[Rds].manifest = run.desired[Rds]
          /\ ~world'[Rds].deleting
      <3>1. Apply(Rds) /\ world'[Rds].manifest = run.desired[Rds]
        BY <1>6, ResourceChange
      <3>2. world'[Rds] = [manifest |-> run.desired[Rds], status |-> NewStatus,
                           deleting |-> FALSE]
        BY <1>6, <3>1 DEF Apply, SetWorld
      <3> QED BY <3>1, <3>2 DEF Apply
    <2>2. run.desired[Rds].snapshot \in Snapshot
      BY <2>1 DEF LeftInv, SecretInv, RebuildInv
    <2> QED BY <1>2, <1>3, <1>4, <1>6, <2>1, <2>2 DEF LeftInv, SnapshotsCome
  <1>7. CASE Rds \notin DOMAIN world'
    BY <1>2, <1>4, <1>7 DEF LeftInv, SnapshotsCome
  <1> QED BY <1>5, <1>6, <1>7

\* As long as the pass goes on, the Instance that it read and asks for stays.
LEMMA InstanceGoesOnBeing ==
  ASSUME NEW rank, RdsParameters, InstanceIsLeft(rank), TypeOK, ResourcesHaveFields,
         LeftInv(rank), [Next]_vars,
         run'.observed = run.observed, run'.desired = run.desired
  PROVE  InstanceStays'
  <1> SUFFICES ASSUME Rds \in DOMAIN run.desired \cap DOMAIN run.observed
               PROVE  /\ Rds \in DOMAIN world'
                      /\ ~world'[Rds].deleting
                      /\ run.observed[Rds].status.secret \in Arn =>
                           world'[Rds].status.secret = run.observed[Rds].status.secret
    BY DEF InstanceStays
  <1>1. /\ Rds \in DOMAIN world
        /\ ~world[Rds].deleting
        /\ run.observed[Rds].status.secret \in Arn =>
             world[Rds].status.secret = run.observed[Rds].status.secret
    BY DEF LeftInv, InstanceStays
  <1>2. Rds \in DOMAIN world'
    BY <1>1, OnlyDeletingIsRemoved
  <1>3. ~world'[Rds].deleting
    <2>1. CASE run' # run
      BY <1>1, <1>2, <2>1, DeletedByPass
    <2>2. CASE run' = run
      BY <1>1, <1>2, <2>2, OnlyLoseDeletes
           DEF InstanceIsLeft, LeftInv, SecretInv, RebuildInv
    <2> QED BY <2>1, <2>2
  <1>4. \/ world'[Rds].status = world[Rds].status
        \/ world'[Rds].status \in Reports(Rds, world) \cup Degrades(Rds, world)
    BY <1>1, <1>2, ResourceChange
  <1>5. world[Rds].status.secret \in Arn => world'[Rds].status.secret = world[Rds].status.secret
    BY <1>1, <1>4, SecretStays, ArnAssumption
  <1> QED BY <1>1, <1>2, <1>3, <1>5

LEMMA LeftStep ==
  ASSUME NEW rank, RdsParameters, InstanceIsLeft(rank), TypeOK, ResourcesHaveFields,
         LeftInv(rank), [Next]_vars
  PROVE  LeftInv(rank)'
  <1>1. SecretInv'
    BY SecretStep DEF LeftInv
  <1>2. SecretOfTheInstance'
    <2> SUFFICES ASSUME SecretOfAnother'
                 PROVE  FALSE
      BY DEF SecretOfTheInstance
    <2>1. /\ Rds \in DOMAIN run.desired \cap DOMAIN run.observed
          /\ \/ Rds \notin DOMAIN world
             \/ /\ world'[Rds].status = world[Rds].status
                /\ world'[Es].manifest.secret = run.observed[Rds].status.secret
                /\ run.observed[Rds].status.secret \in Arn
      BY SecretLeaves DEF LeftInv, SecretOfTheInstance
    <2>2. world'[Es].manifest.secret = world'[Rds].status.secret
      BY <2>1 DEF LeftInv, InstanceStays
    <2> QED BY <2>2 DEF SecretOfAnother
  <1>3. SnapshotsCome(rank)' /\ InstanceStays'
    <2>1. CASE Reconcile
      BY <2>1, PassOnLeft DEF Reconcile
    <2>2. CASE run' = NoRun
      <3>1. InstanceStays'
        BY <2>2 DEF NoRun, NoNames, InstanceStays
      <3> QED BY <2>2, <3>1, SnapshotsGoOn
    <2>3. CASE /\ run'.observed = run.observed /\ run'.desired = run.desired
               /\ run'.todo \subseteq run.todo
      BY <2>3, SnapshotsGoOn, InstanceGoesOnBeing
    <2> QED BY <2>1, <2>2, <2>3, RunChange DEF LeftInv, SecretInv, RebuildInv
  <1> QED BY <1>1, <1>2, <1>3 DEF LeftInv

\* As long as nobody else deletes the Instance and no edit returns to a snapshot,
\* an ExternalSecret never copies the secret of another Instance than the one
\* there is, however many rebuilds there are and however they are interrupted.
THEOREM SecretFollowsInstance ==
  ASSUME RdsParameters, NEW rank, InstanceIsLeft(rank)
  PROVE  Spec => []SecretOfTheInstance
  <1>1. Init => LeftInv(rank)
    BY LeftInitially
  <1>2. TypeOK /\ ResourcesHaveFields /\ LeftInv(rank) /\ [Next]_vars => LeftInv(rank)'
    BY LeftStep
  <1>3. LeftInv(rank) => SecretOfTheInstance
    BY DEF LeftInv
  <1> QED BY <1>1, <1>2, <1>3, RdsTypeCorrect, FieldsAlways, PTL DEF Spec

--------------------------------------------------------------------------------
(***************************************************************************)
(* The parameter group in use: what a pass collects of the groups is       *)
(* settled when it begins, and it only gets less.                          *)
(***************************************************************************)

GroupInv == HasFields(run) /\ GroupInUseIsKept

LEMMA PassOnGroups ==
  ASSUME RdsParameters, NEW c, NEW observed, NEW v \in Family,
         LET r == PassOn(c, observed)
         IN /\ Group(v) \in r.todo \ DOMAIN r.desired
            /\ Groups \cap DOMAIN r.generated # {}
  PROVE  observed[Rds].status.group # v
  <1> DEFINE r == PassOn(c, observed)
             family == computeFamily(c, observed)
             groups == applyParameterGroup(c, observed)
  <1>1. r # NoRun
    BY DEF NoRun
  <1>2. /\ Generate(c, observed) # Fatal
        /\ r.generated = Generate(c, observed)
        /\ r.desired = Sequenced(Sequence(c), r.generated, observed)
        /\ r.todo \ DOMAIN r.desired
             = {n \in DOMAIN observed \ DOMAIN r.desired : ~observed[n].deleting}
    BY <1>1, PassOnFacts
  <1> HIDE DEF r
  <1>3. /\ Group(v) \in r.todo \ DOMAIN r.desired
        /\ Groups \cap DOMAIN r.generated # {}
    BY DEF r
  <1>4. Group(v) \in DOMAIN observed /\ Group(v) \notin DOMAIN r.generated
    BY <1>2, <1>3, SequencedFacts
  <1>5. Groups \cap DOMAIN r.generated = Groups \cap groups
    BY <1>2, GeneratedNames
  <1>6. Group(v) \in Groups
    BY DEF Groups
  <1>7. groups # {} /\ Group(v) \notin groups
    BY <1>3, <1>4, <1>5, <1>6
  <1>8. groups = {Group(family)} \cup keepStaleParameterGroups(family, observed)
    BY <1>7 DEF applyParameterGroup
  <1>9. rdsInstanceSwitchedTo(family, observed)
    BY <1>4, <1>6, <1>7, <1>8 DEF keepStaleParameterGroups
  <1>10. family # v
    BY <1>7, <1>8
  <1> HIDE DEF family
  <1> QED BY <1>9, <1>10 DEF rdsInstanceSwitchedTo, ParameterGroupInUse

LEMMA GroupStep ==
  ASSUME RdsParameters, GroupInv, [Next]_vars
  PROVE  GroupInv'
  <1>1. CASE Reconcile
    <2>1. run' = PassOn(composite, world)
      BY <1>1 DEF Reconcile
    <2>2. HasFields(run)' /\ (run' = NoRun \/ run'.observed = world)
      BY <2>1, PassOnFacts DEF HasFields
    <2>3. CASE run' = NoRun
      BY <2>2, <2>3 DEF NoRun, GroupInv, GroupInUseIsKept
    <2>4. CASE run'.observed = world
      BY <2>1, <2>2, <2>4, PassOnGroups DEF GroupInv, GroupInUseIsKept
    <2> QED BY <2>2, <2>3, <2>4
  <1>2. CASE run' = NoRun
    BY <1>2 DEF NoRun, NoNames, GroupInv, GroupInUseIsKept, HasFields
  <1>3. CASE /\ HasFields(run')
             /\ run'.observed = run.observed
             /\ run'.generated = run.generated
             /\ run'.desired = run.desired
             /\ run'.todo \subseteq run.todo
    BY <1>3 DEF GroupInv, GroupInUseIsKept, HasFields
  <1> QED BY <1>1, <1>2, <1>3, RunChange DEF GroupInv

\* Whatever the versions an instance goes through, no pass sets out to delete
\* the parameter group it reported to be using.
THEOREM GroupInUseStays ==
  ASSUME RdsParameters
  PROVE  Spec => []GroupInUseIsKept
  <1>1. Init => GroupInv
    BY DEF Init, GroupInv, GroupInUseIsKept, HasFields, NoRun, NoNames
  <1>2. GroupInv /\ [Next]_vars => GroupInv'
    BY GroupStep
  <1>3. GroupInv => GroupInUseIsKept
    BY DEF GroupInv
  <1> QED BY <1>1, <1>2, <1>3, PTL DEF Spec

--------------------------------------------------------------------------------
(***************************************************************************)
(* The group in use when the deletion is called for.  By then the Instance *)
(* may have moved on from the reading of the pass, but only to the group   *)
(* that it is asked for, and that one the pass composes or a later one.    *)
(***************************************************************************)

\* What asks for a group of ours asks for the one of its version, and for a
\* version that the composite has come to.
AskedOf(rank, asked) ==
  /\ asked.version \in Family
  /\ rank[asked.version] <= rank[composite.version]
  /\ asked.group \in Family => asked.group = asked.version

GroupsAsked(rank) ==
  /\ Rds \in DOMAIN world => AskedOf(rank, world[Rds].manifest)
  /\ Rds \in DOMAIN run.desired => AskedOf(rank, run.desired[Rds])
  /\ Rds \in DOMAIN world \cap DOMAIN run.desired =>
       rank[world[Rds].manifest.version] <= rank[run.desired[Rds].version]

\* No group in use is of a later version than the one asked for.
UsesAskedGroup(rank) ==
  ParameterGroupInUse(world) \in Family =>
    rank[ParameterGroupInUse(world)] <= rank[world[Rds].manifest.version]

\* What a pass has left to collect is not in use, and not asked for either.
CollectsUnusedGroups ==
  \A v \in Family :
    (/\ Group(v) \in run.todo \ DOMAIN run.desired
     /\ Groups \cap DOMAIN run.generated # {}
     /\ Rds \in DOMAIN world)
      => ParameterGroupInUse(world) # v /\ world[Rds].manifest.group # v

InUseInv(rank) ==
  /\ HasFields(run)
  /\ composite.version \in Family
  /\ GroupsAsked(rank)
  /\ UsesAskedGroup(rank)
  /\ CollectsUnusedGroups

\* What generate asks of the Instance, and which groups it leaves out.
LEMMA GeneratedGroups ==
  ASSUME RdsParameters, NEW c, c.version \in Family, NEW observed,
         Generate(c, observed) # Fatal
  PROVE  LET generated == Generate(c, observed)
         IN /\ Rds \in DOMAIN generated =>
                 /\ generated[Rds].version = c.version
                 /\ generated[Rds].group \in Family => generated[Rds].group = c.version
            /\ \A v \in Family :
                 (/\ Groups \cap DOMAIN generated # {}
                  /\ Group(v) \in DOMAIN observed \ DOMAIN generated)
                   => v # c.version /\ ParameterGroupInUse(observed) = c.version
  <1> DEFINE generated == Generate(c, observed)
             groups == applyParameterGroup(c, observed)
  <1>1. computeFamily(c, observed) = c.version
    <2>1. c.version # None
      BY FamilyNames
    <2> QED BY <2>1 DEF computeFamily
  <1>2. ASSUME Rds \in DOMAIN generated
        PROVE  /\ generated[Rds].version = c.version
               /\ generated[Rds].group \in {c.version, "named", "default", None}
    <2>1. ManifestOf(Rds, c, observed) = buildRDSInstance(c, observed)
      BY DifferentNames DEF ManifestOf
    <2>2. generated[Rds] = buildRDSInstance(c, observed)
      BY <1>2, <2>1 DEF RdsParameters, RdsGenerate
    <2>3. /\ buildRDSInstance(c, observed).version = c.version
          /\ buildRDSInstance(c, observed).group \in {c.version, "named", "default", None}
      BY <1>1 DEF buildRDSInstance, Blank
    <2> QED BY <2>2, <2>3
  <1>3. ASSUME NEW v \in Family, Groups \cap DOMAIN generated # {},
               Group(v) \in DOMAIN observed \ DOMAIN generated
        PROVE  v # c.version /\ ParameterGroupInUse(observed) = c.version
    <2>1. Groups \cap DOMAIN generated = Groups \cap groups
      BY GeneratedNames
    <2>2. Group(v) \in Groups \ groups /\ groups # {}
      BY <1>3, <2>1 DEF Groups
    <2>3. groups = {Group(c.version)} \cup keepStaleParameterGroups(c.version, observed)
      BY <1>1, <2>2 DEF applyParameterGroup
    <2>4. rdsInstanceSwitchedTo(c.version, observed)
      BY <1>3, <2>2, <2>3 DEF keepStaleParameterGroups
    <2> QED BY <2>2, <2>3, <2>4 DEF rdsInstanceSwitchedTo
  <1> HIDE DEF generated
  <1> QED BY <1>2, <1>3, FamilyNames DEF generated

\* The Instance goes on using the group it used, or the one asked for.
LEMMA GroupReported ==
  ASSUME RdsParameters, TypeOK, Rds \in DOMAIN world,
         NEW s \in Reports(Rds, world) \cup Degrades(Rds, world)
  PROVE  s.group \in {world[Rds].status.group, world[Rds].manifest.group}
  <1> DEFINE asked == world[Rds].manifest
             old == world[Rds].status
  <1>1. old \in RdsStatus
    BY DEF TypeOK, IsMap, Resource, RdsParameters
  <1>2. CASE s \in RdsDegrades(Rds, world)
    BY <1>1, <1>2 DEF RdsDegrades, RdsStatus
  <1>3. CASE s \in RdsReports(Rds, world)
    <2>1. s \in InstanceReports(world)
      BY <1>3 DEF RdsReports
    <2>2. s = [old EXCEPT !.phase = "down"] \/ s.group = asked.group
      BY <2>1 DEF InstanceReports
    <2> QED BY <1>1, <2>2 DEF RdsStatus
  <1> QED BY <1>2, <1>3 DEF RdsParameters

LEMMA InUseInitially ==
  ASSUME NEW rank, RdsAdvances(rank), Init
  PROVE  InUseInv(rank)
  <1>1. composite.version \in Family
    BY DEF Init, RdsAdvances
  <1>2. Rds \notin DOMAIN world \cup DOMAIN run.desired /\ HasFields(run)
    BY DEF Init, NoRun, NoNames, HasFields
  <1>3. ParameterGroupInUse(world) \notin Family
    BY <1>2, FamilyNames DEF ParameterGroupInUse
  <1> QED BY <1>1, <1>2, <1>3
          DEF InUseInv, GroupsAsked, UsesAskedGroup, CollectsUnusedGroups

\* An Instance, as it is after a step.
LEMMA InstanceChange ==
  ASSUME RdsParameters, TypeOK, ResourcesHaveFields, [Next]_vars, Rds \in DOMAIN world'
  PROVE  /\ \/ /\ Rds \notin DOMAIN world
               /\ ParameterGroupInUse(world') = None
            \/ /\ Rds \in DOMAIN world
               /\ ParameterGroupInUse(world')
                    \in {ParameterGroupInUse(world), world[Rds].manifest.group}
         /\ \/ /\ Rds \in DOMAIN world
               /\ world'[Rds].manifest = world[Rds].manifest
            \/ /\ Rds \in DOMAIN run.desired
               /\ world'[Rds].manifest = run.desired[Rds]
  <1>1. CASE Rds \notin DOMAIN world
    <2>1. /\ world'[Rds].status = RdsNewStatus
          /\ world'[Rds].manifest = run.desired[Rds]
          /\ Apply(Rds)
      BY <1>1, ResourceChange DEF RdsParameters
    <2>2. Rds \in DOMAIN run.desired
      BY <2>1 DEF Apply
    <2> QED BY <1>1, <2>1, <2>2 DEF RdsNewStatus, ParameterGroupInUse
  <1>2. CASE Rds \in DOMAIN world
    <2>1. \/ world'[Rds].status = world[Rds].status
          \/ world'[Rds].status \in Reports(Rds, world) \cup Degrades(Rds, world)
      BY <1>2, ResourceChange
    <2>2. \/ world'[Rds].manifest = world[Rds].manifest
          \/ Rds \in DOMAIN run.desired /\ world'[Rds].manifest = run.desired[Rds]
      BY <1>2, ResourceChange DEF Apply
    <2>3. world'[Rds].status.group \in {world[Rds].status.group, world[Rds].manifest.group}
      BY <1>2, <2>1, GroupReported
    <2> QED BY <1>2, <2>2, <2>3 DEF ParameterGroupInUse
  <1> QED BY <1>1, <1>2

LEMMA PassOnInUse ==
  ASSUME NEW rank, RdsParameters, RdsAdvances(rank), InUseInv(rank),
         run' = PassOn(composite, world), UNCHANGED <<composite, world>>
  PROVE  InUseInv(rank)'
  <1>1. HasFields(run')
    BY PassOnFacts
  <1>2. CASE run' = NoRun
    BY <1>1, <1>2 DEF InUseInv, GroupsAsked, AskedOf, UsesAskedGroup,
                      CollectsUnusedGroups, ParameterGroupInUse, NoRun, NoNames, HasFields
  <1>3. CASE run' # NoRun
    <2> DEFINE generated == Generate(composite, world)
               version == composite.version
    <2>1. /\ generated # Fatal
          /\ run'.generated = generated
          /\ run'.desired = Sequenced(Sequence(composite), generated, world)
          /\ run'.todo \ DOMAIN run'.desired \subseteq DOMAIN world
      BY <1>3, PassOnFacts
    <2>2. /\ DOMAIN run'.desired \subseteq DOMAIN generated
          /\ DOMAIN generated \cap DOMAIN world \subseteq DOMAIN run'.desired
          /\ \A n \in DOMAIN run'.desired : run'.desired[n] = generated[n]
      BY <2>1, SequencedFacts
    <2>3. version \in Family
      BY DEF InUseInv
    <2>4. /\ Rds \in DOMAIN generated =>
               /\ generated[Rds].version = version
               /\ generated[Rds].group \in Family => generated[Rds].group = version
          /\ \A v \in Family :
               (/\ Groups \cap DOMAIN generated # {}
                /\ Group(v) \in DOMAIN world \ DOMAIN generated)
                 => v # version /\ ParameterGroupInUse(world) = version
      BY <2>1, <2>3, GeneratedGroups
    <2> HIDE DEF generated
    <2>5. GroupsAsked(rank)'
      <3>1. ASSUME Rds \in DOMAIN run'.desired
            PROVE  /\ run'.desired[Rds].version = version
                   /\ AskedOf(rank, run'.desired[Rds])
        BY <2>2, <2>3, <2>4, <3>1 DEF AskedOf, RdsAdvances
      <3>2. Rds \in DOMAIN world => AskedOf(rank, world[Rds].manifest)
        BY DEF InUseInv, GroupsAsked
      <3> QED BY <3>1, <3>2 DEF GroupsAsked, AskedOf
    <2>6. ASSUME NEW v \in Family, Group(v) \in run'.todo \ DOMAIN run'.desired,
                 Groups \cap DOMAIN generated # {}, Rds \in DOMAIN world
          PROVE  ParameterGroupInUse(world) # v /\ world[Rds].manifest.group # v
      <3> DEFINE asked == world[Rds].manifest
      <3>1. v # version /\ ParameterGroupInUse(world) = version
        BY <2>1, <2>2, <2>4, <2>6
      <3>2. /\ AskedOf(rank, asked)
            /\ rank[version] <= rank[asked.version]
        BY <2>3, <2>6, <3>1 DEF InUseInv, GroupsAsked, UsesAskedGroup
      <3>3. asked.version = version
        BY <2>3, <3>2 DEF AskedOf, RdsAdvances
      <3> QED BY <3>1, <3>2, <3>3 DEF AskedOf
    <2> QED BY <1>1, <2>1, <2>5, <2>6
            DEF InUseInv, UsesAskedGroup, CollectsUnusedGroups, ParameterGroupInUse
  <1> QED BY <1>2, <1>3

\* However the step leaves the pass, the Instance goes on as asked.
LEMMA InstanceGoesOn ==
  ASSUME NEW rank, RdsParameters, RdsAdvances(rank), TypeOK, ResourcesHaveFields,
         InUseInv(rank), [Next]_vars, run'.desired = run.desired \/ run' = NoRun
  PROVE  /\ composite'.version \in Family
         /\ GroupsAsked(rank)'
         /\ UsesAskedGroup(rank)'
  <1>1. /\ composite'.version \in Family
        /\ rank[composite.version] <= rank[composite'.version]
    <2>1. UNCHANGED composite \/ composite' \in Edits(composite)
      BY DEF Next, vars, Reconcile, GarbageCollect, Apply, Report, Remove, Edit, Degrade,
             Lose, Abort
    <2> QED BY <2>1 DEF InUseInv, RdsAdvances
  <1>2. ASSUME NEW asked, AskedOf(rank, asked)
        PROVE  AskedOf(rank, asked)'
    BY <1>1, <1>2 DEF AskedOf, InUseInv, RdsAdvances
  <1>3. GroupsAsked(rank)'
    <2>1. CASE run'.desired = run.desired
      <3>1. ASSUME Rds \in DOMAIN world'
            PROVE  /\ AskedOf(rank, world'[Rds].manifest)
                   /\ Rds \in DOMAIN run.desired =>
                        rank[world'[Rds].manifest.version]
                          <= rank[run.desired[Rds].version]
        BY <3>1, InstanceChange DEF InUseInv, GroupsAsked, AskedOf, RdsAdvances
      <3> QED BY <1>2, <2>1, <3>1 DEF InUseInv, GroupsAsked
    <2>2. CASE run' = NoRun
      <3>1. Rds \in DOMAIN world' => AskedOf(rank, world'[Rds].manifest)
        BY InstanceChange DEF InUseInv, GroupsAsked
      <3>2. Rds \notin DOMAIN run'.desired
        BY <2>2 DEF NoRun, NoNames
      <3> QED BY <1>2, <3>1, <3>2 DEF GroupsAsked
    <2> QED BY <2>1, <2>2
  <1>4. UsesAskedGroup(rank)'
    <2> SUFFICES ASSUME ParameterGroupInUse(world') \in Family
                 PROVE  rank[ParameterGroupInUse(world')] <= rank[world'[Rds].manifest.version]
      BY DEF UsesAskedGroup
    <2>1. Rds \in DOMAIN world'
      BY FamilyNames DEF ParameterGroupInUse
    <2>2. /\ Rds \in DOMAIN world
          /\ ParameterGroupInUse(world')
               \in {ParameterGroupInUse(world), world[Rds].manifest.group}
      BY <2>1, InstanceChange, FamilyNames
    <2>3. /\ world[Rds].manifest.version \in Family
          /\ rank[ParameterGroupInUse(world')] <= rank[world[Rds].manifest.version]
      BY <2>2 DEF InUseInv, GroupsAsked, AskedOf, UsesAskedGroup, RdsAdvances
    <2>4. \/ world'[Rds].manifest = world[Rds].manifest
          \/ /\ Rds \in DOMAIN run.desired
             /\ world'[Rds].manifest = run.desired[Rds]
      BY <2>1, InstanceChange
    <2>5. /\ world'[Rds].manifest.version \in Family
          /\ rank[world[Rds].manifest.version]
               <= rank[world'[Rds].manifest.version]
      BY <2>2, <2>3, <2>4 DEF InUseInv, GroupsAsked, AskedOf, RdsAdvances
    <2> QED BY <2>3, <2>5 DEF RdsAdvances
  <1> QED BY <1>1, <1>3, <1>4

LEMMA CollectsUnusedStep ==
  ASSUME RdsParameters, TypeOK, ResourcesHaveFields, CollectsUnusedGroups,
         [Next]_vars, run'.generated = run.generated, run'.desired = run.desired,
         run'.todo \subseteq run.todo
  PROVE  CollectsUnusedGroups'
  <1> SUFFICES ASSUME NEW v \in Family, Group(v) \in run.todo \ DOMAIN run.desired,
                      Groups \cap DOMAIN run.generated # {}, Rds \in DOMAIN world'
               PROVE  ParameterGroupInUse(world') # v /\ world'[Rds].manifest.group # v
    BY DEF CollectsUnusedGroups, ParameterGroupInUse
  <1>1. Rds \in DOMAIN world /\ world'[Rds].manifest = world[Rds].manifest
    BY CollectionComesFirst
  <1>2. ParameterGroupInUse(world) # v /\ world[Rds].manifest.group # v
    BY <1>1 DEF CollectsUnusedGroups
  <1> QED BY <1>1, <1>2, InstanceChange

LEMMA InUseStep ==
  ASSUME NEW rank, RdsParameters, RdsAdvances(rank), TypeOK, ResourcesHaveFields,
         InUseInv(rank), [Next]_vars
  PROVE  InUseInv(rank)'
  <1>1. CASE Reconcile
    BY <1>1, PassOnInUse DEF Reconcile
  <1>2. CASE run' = NoRun
    <2>1. HasFields(run') /\ CollectsUnusedGroups'
      BY <1>2 DEF NoRun, HasFields, CollectsUnusedGroups
    <2> QED BY <1>2, <2>1, InstanceGoesOn DEF InUseInv, HasFields
  <1>3. CASE /\ HasFields(run') /\ run'.generated = run.generated
             /\ run'.desired = run.desired /\ run'.todo \subseteq run.todo
    <2>1. CollectsUnusedGroups'
      BY <1>3, CollectsUnusedStep DEF InUseInv
    <2> QED BY <1>3, <2>1, InstanceGoesOn DEF InUseInv, HasFields
  <1> QED BY <1>1, <1>2, <1>3, RunChange DEF InUseInv

\* The step that ParameterGroupInUseStays allows.
KeepsGroupInUse ==
  \A v \in Family :
    (/\ run' # run
     /\ Group(v) \in DOMAIN world \cap DOMAIN world'
     /\ ~world[Group(v)].deleting /\ world'[Group(v)].deleting
     /\ Groups \cap DOMAIN run.generated # {})
      => ParameterGroupInUse(world) # v

\* As long as versions only go forward, a pass that composes parameter groups
\* deletes none that the Instance uses by then, however long ago it read which
\* one that was, and however often the Instance is rebuilt meanwhile.
THEOREM RdsKeepsGroupInUse ==
  ASSUME RdsParameters, NEW rank, RdsAdvances(rank)
  PROVE  Spec => ParameterGroupInUseStays
  <1>1. Init => InUseInv(rank)
    BY InUseInitially
  <1>2. TypeOK /\ ResourcesHaveFields /\ InUseInv(rank) /\ [Next]_vars => InUseInv(rank)'
    BY InUseStep
  <1>3. ResourcesHaveFields /\ InUseInv(rank) /\ [Next]_vars => [KeepsGroupInUse]_vars
    <2> SUFFICES ASSUME ResourcesHaveFields, InUseInv(rank), [Next]_vars, NEW v \in Family,
                        run' # run, Group(v) \in DOMAIN world \cap DOMAIN world',
                        ~world[Group(v)].deleting, world'[Group(v)].deleting,
                        Groups \cap DOMAIN run.generated # {}
                 PROVE  ParameterGroupInUse(world) # v
      BY DEF KeepsGroupInUse
    <2>1. Group(v) \in run.todo \ DOMAIN run.desired
      BY DeletedByPass
    <2>2. Rds \notin DOMAIN world => ParameterGroupInUse(world) = None
      BY DEF ParameterGroupInUse
    <2> QED BY <2>1, <2>2, FamilyNames DEF InUseInv, CollectsUnusedGroups
  <1>4. [KeepsGroupInUse]_vars
          <=> [\A v \in Family :
                 (/\ run' # run
                  /\ Group(v) \in DOMAIN world \cap DOMAIN world'
                  /\ ~world[Group(v)].deleting /\ world'[Group(v)].deleting
                  /\ Groups \cap DOMAIN run.generated # {})
                   => ParameterGroupInUse(world) # v]_vars
    BY DEF KeepsGroupInUse
  <1> QED BY <1>1, <1>2, <1>3, <1>4, RdsTypeCorrect, FieldsAlways,
          PTL DEF Spec, ParameterGroupInUseStays
================================================================================
