----------------------------- MODULE SqlKinds_proofs ---------------------------
(***************************************************************************)
(* A password is rotated once: for any list of any length, any number of   *)
(* disruptions and any order of the controller's and the providers' steps. *)
(***************************************************************************)
EXTENDS SqlKinds, Composition_proofs

\* A pass that read a trigger asks for the same one.
AsksForSameTrigger(r) ==
  (Role \in DOMAIN r.desired \cap DOMAIN r.observed
     /\ r.observed[Role].manifest # NoTrigger)
    => r.desired[Role] = r.observed[Role].manifest

\* As long as a pass has yet to apply the Role, the Role there is is the one
\* it read: nobody else creates it or changes its manifest.
ReadIsCurrent ==
  Role \in run.todo \cap DOMAIN run.desired \cap DOMAIN world =>
    /\ Role \in DOMAIN run.observed
    /\ run.observed[Role].manifest = world[Role].manifest

TriggerInv ==
  /\ HasFields(run)
  /\ AsksForSameTrigger(run)
  /\ ReadIsCurrent

\* What the handler asks of an observed Role with a trigger.
LEMMA TriggerIsKept ==
  ASSUME NEW restored, NEW observed, Role \in DOMAIN observed,
         observed[Role].manifest # NoTrigger
  PROVE  passwordRotationTrigger(restored, observed) = observed[Role].manifest
  BY DEF passwordRotationTrigger, Role

LEMMA PassOnAsks ==
  ASSUME SqlParameters, NEW c, NEW observed
  PROVE  /\ HasFields(PassOn(c, observed))
         /\ AsksForSameTrigger(PassOn(c, observed))
         /\ \/ PassOn(c, observed) = NoRun
            \/ PassOn(c, observed).observed = observed
  <1> DEFINE generated == Generate(c, observed)
             desired == Sequenced(Sequence(c), generated, observed)
             r == PassOn(c, observed)
  <1>1. CASE r = NoRun
    BY <1>1 DEF NoRun, NoNames, HasFields, AsksForSameTrigger
  <1>2. CASE r # NoRun
    <2>1. /\ r.observed = observed /\ r.desired = desired /\ HasFields(r)
          /\ generated # Fatal
      BY <1>2 DEF PassOn, HasFields
    <2>2. ASSUME Role \in DOMAIN desired, Role \in DOMAIN observed,
                 observed[Role].manifest # NoTrigger
          PROVE  desired[Role] = observed[Role].manifest
      <3>1. desired[Role] = generated[Role] /\ Role \in DOMAIN generated
        BY <2>2, SequencedFacts
      <3>2. generated = SqlGenerate(c, observed)
        BY DEF SqlParameters
      <3>3. generated # Fatal
        BY <2>1
      <3>4. generated[Role] = passwordRotationTrigger(c.restored, observed)
        BY <3>1, <3>2, <3>3 DEF SqlGenerate, Role
      <3> QED BY <2>2, <3>1, <3>4, TriggerIsKept
    <2> HIDE DEF generated, desired
    <2> QED BY <2>1, <2>2 DEF AsksForSameTrigger
  <1> QED BY <1>1, <1>2

\* No step changes the manifest of the Role but an Apply of it.
LEMMA RoleManifest ==
  ASSUME TypeOK, [Next]_vars, Role \in DOMAIN world'
  PROVE  \/ Role \in DOMAIN world /\ world'[Role].manifest = world[Role].manifest
         \/ Apply(Role)
  <1>1. ASSUME NEW n \in Name, Apply(n), n # Role
        PROVE  Role \in DOMAIN world /\ world'[Role].manifest = world[Role].manifest
    BY <1>1 DEF Apply, SetWorld
  <1>2. ASSUME NEW n \in Name, NEW field, NEW v,
               \/ world' = [world EXCEPT ![n].deleting = v]
               \/ world' = [world EXCEPT ![n].status = v]
        PROVE  Role \in DOMAIN world /\ world'[Role].manifest = world[Role].manifest
    <2>1. Role \in DOMAIN world /\ world[Role] \in Resource
      BY <1>2 DEF TypeOK, IsMap
    <2> QED BY <1>2, <2>1 DEF Resource
  <1>3. ASSUME NEW n \in Name, Remove(n)
        PROVE  Role \in DOMAIN world /\ world'[Role].manifest = world[Role].manifest
    BY <1>3 DEF Remove, SetWorld
  <1>4. CASE UNCHANGED world
    BY <1>4
  <1> QED
    BY <1>1, <1>2, <1>3, <1>4
       DEF Next, vars, Reconcile, GarbageCollect, Report, Edit, Degrade, Lose,
           Abort, SetWorld

LEMMA TriggerStep ==
  ASSUME SqlParameters, TypeOK, TriggerInv, [Next]_vars
  PROVE  TriggerInv'
  <1>1. HasFields(NoRun) /\ AsksForSameTrigger(NoRun)
    BY DEF NoRun, NoNames, HasFields, AsksForSameTrigger
  <1>2. CASE Reconcile
    <2>1. run' = PassOn(composite, world) /\ world' = world
      BY <1>2 DEF Reconcile
    <2>2. HasFields(run') /\ AsksForSameTrigger(run')
      BY <2>1, PassOnAsks
    <2>3. run' = NoRun \/ run'.observed = world
      BY <2>1, PassOnAsks
    <2>4. ReadIsCurrent'
      BY <2>1, <2>3 DEF ReadIsCurrent, NoRun, NoNames
    <2> QED BY <2>2, <2>4 DEF TriggerInv, HasFields, AsksForSameTrigger
  <1>3. ASSUME NEW n \in Name, run' = Called(n),
               n = Role \/ ~Apply(Role), n = Role => Apply(Role) \/ GarbageCollect(Role)
        PROVE  TriggerInv'
    <2>1. CASE run' = NoRun
      BY <1>1, <2>1 DEF TriggerInv, HasFields, AsksForSameTrigger, ReadIsCurrent,
                        NoRun, NoNames
    <2>2. CASE run' # NoRun
      <3>1. /\ HasFields(run') /\ run'.observed = run.observed
            /\ run'.desired = run.desired /\ run'.todo = run.todo \ {n}
        BY <1>3, <2>2, CalledFields DEF TriggerInv
      <3>2. AsksForSameTrigger(run')
        BY <3>1 DEF TriggerInv, AsksForSameTrigger
      <3>3. ReadIsCurrent'
        BY <1>3, <3>1, RoleManifest DEF TriggerInv, ReadIsCurrent
      <3> QED BY <3>1, <3>2, <3>3 DEF TriggerInv, HasFields, AsksForSameTrigger
    <2> QED BY <2>1, <2>2
  <1>4. ASSUME run' = run, ~Apply(Role)
        PROVE  TriggerInv'
    BY <1>4, RoleManifest DEF TriggerInv, HasFields, AsksForSameTrigger, ReadIsCurrent
  <1>5. CASE Abort
    BY <1>1, <1>5 DEF Abort, TriggerInv, HasFields, AsksForSameTrigger,
                      ReadIsCurrent, NoRun, NoNames
  <1>6. CASE Apply(Role)
    <2>1. Role \in Name /\ run' = Called(Role)
      BY <1>6 DEF Apply, TypeOK
    <2> QED BY <1>3, <1>6, <2>1
  <1>7. CASE ~Apply(Role)
    <2>1. \/ \E n \in Name : Apply(n) /\ n # Role /\ run' = Called(n)
          \/ \E n \in Name : GarbageCollect(n) /\ run' = Called(n)
          \/ Reconcile \/ Abort \/ run' = run
      BY <1>7 DEF Next, vars, Apply, GarbageCollect, Report, Remove, Edit,
                  Degrade, Lose
    <2> QED BY <1>2, <1>3, <1>4, <1>5, <1>7, <2>1
  <1> QED BY <1>6, <1>7

\* The step that RotatedOnce allows.
KeepsTrigger ==
  (/\ Role \in DOMAIN world \cap DOMAIN world'
   /\ world[Role].manifest # NoTrigger)
    => world'[Role].manifest = world[Role].manifest

LEMMA NextKeepsTrigger ==
  ASSUME TypeOK, TriggerInv, [Next]_vars
  PROVE  KeepsTrigger
  <1> SUFFICES ASSUME Role \in DOMAIN world, Role \in DOMAIN world',
                      world[Role].manifest # NoTrigger
               PROVE  world'[Role].manifest = world[Role].manifest
    BY DEF KeepsTrigger
  <1>1. CASE Apply(Role)
    <2>1. world[Role] \in Resource
      BY DEF TypeOK, IsMap
    <2>2. world'[Role].manifest = run.desired[Role]
      BY <1>1, <2>1 DEF Apply, SetWorld, Resource
    <2>3. Role \in run.todo /\ Role \in DOMAIN run.desired
      BY <1>1 DEF Apply
    <2>4. /\ Role \in DOMAIN run.observed
          /\ run.observed[Role].manifest = world[Role].manifest
      BY <2>3 DEF TriggerInv, ReadIsCurrent
    <2> QED BY <2>2, <2>3, <2>4 DEF TriggerInv, AsksForSameTrigger
  <1>2. CASE ~Apply(Role)
    BY <1>2, RoleManifest
  <1> QED BY <1>1, <1>2

--------------------------------------------------------------------------------
(***************************************************************************)
(* The SQL kinds answer with what the theorems of Composition_proofs ask.  *)
(***************************************************************************)

LEMMA EditsAreComposites ==
  ASSUME NEW c \in SqlComposite
  PROVE  SqlEdits(c) \subseteq SqlComposite
  BY DEF SqlEdits, SqlComposite

\* Every name that is generated is one of SqlName.
LEMMA NamesAreKnown ==
  ASSUME NEW c \in SqlComposite
  PROVE  GeneratedNames(c) \subseteq SqlName
  <1> DEFINE items == Entries(c)
  <1>1. PICK k \in 0 .. MaxList : c.list \in [1 .. k -> Item]
    BY DEF SqlComposite, Lists
  <1>2. items \subseteq Item
    BY <1>1 DEF Entries
  <1>3. \A literal : For(literal, items) \subseteq For(literal, Item)
    BY <1>2 DEF For
  <1>4. \A x \in Item, j \in 0 .. MaxList - 1 : <<"extension", x, j>> \in SqlName
    <2> DEFINE extensions ==
                 {<<"extension", y, i>> : y \in Item, i \in 0 .. MaxList - 1}
    <2>1. \A x \in Item, j \in 0 .. MaxList - 1 : <<"extension", x, j>> \in extensions
      OBVIOUS
    <2>2. extensions \subseteq SqlName
      BY DEF SqlName
    <2> HIDE DEF extensions
    <2> QED BY <2>1, <2>2
  <1>5. \A i \in DOMAIN c.list : <<"extension", c.list[i], i - 1>> \in SqlName
    <2>1. \A i \in DOMAIN c.list : c.list[i] \in Item /\ i - 1 \in 0 .. MaxList - 1
      BY <1>1, MaxListAssumption
    <2> QED BY <1>4, <2>1
  <1>6. \A l \in {"role", "user", "instance-protection", "mariadb-database",
                  "grant-owner-to-dbadmin", "postgresql-database",
                  "grant-usage", "owner-protection"} : Plain(l) \in SqlName
    BY DEF SqlName
  <1>7. \A l \in {"grant", "usage-grant", "db-protection"} :
          For(l, items) \subseteq SqlName
    BY <1>3 DEF SqlName
  <1> HIDE DEF items
  <1>8. c.kind \in Kinds
    BY DEF SqlComposite
  <1>9. CASE c.kind = "PostgreSQLUser"
    BY <1>6, <1>7, <1>9 DEF GeneratedNames, pgUserGenerator, items
  <1>10. CASE c.kind = "MariaDBUser"
    BY <1>6, <1>7, <1>10 DEF GeneratedNames, mariaDBUserGenerator, items
  <1>11. CASE c.kind = "PostgreSQLDatabase"
    BY <1>5, <1>6, <1>11 DEF GeneratedNames, pgDatabaseGenerator,
                               buildExtensions
  <1>12. CASE c.kind = "MariaDBDatabase"
    BY <1>6, <1>12 DEF GeneratedNames, mariaDBDatabaseGenerator, items
  <1> QED BY <1>8, <1>9, <1>10, <1>11, <1>12 DEF Kinds

LEMMA TriggerIsTime ==
  ASSUME NEW restored, NEW observed, NEW V, IsMap(observed, V),
         \A v \in V : v.manifest \in Time /\ v.status.changed \in Time
  PROVE  passwordRotationTrigger(restored, observed) \in Time
  <1>1. CASE Plain("role") \notin DOMAIN observed
    BY <1>1 DEF passwordRotationTrigger, NoTrigger, Time
  <1>2. CASE Plain("role") \in DOMAIN observed
    <2>1. observed[Plain("role")] \in V
      BY <1>2 DEF IsMap
    <2> QED BY <1>2, <2>1 DEF passwordRotationTrigger, NoTrigger, Time
  <1> QED BY <1>1, <1>2

LEMMA ReportsAreStatuses ==
  ASSUME NEW n, NEW resource, resource.manifest \in Time,
         resource.status \in SqlStatus, NEW observed, observed[n] = resource
  PROVE  SqlReports(n, observed) \cup SqlDegrades(n, observed) \subseteq SqlStatus
  BY DEF SqlReports, SqlDegrades, SqlStatus, Time

\* The handlers meet the hypothesis of TypeCorrect.
LEMMA SqlTypes ==
  ASSUME SqlParameters
  PROVE  HandlerTypes
  <1>1. \A c \in Composite : Edits(c) \subseteq Composite
    BY EditsAreComposites DEF SqlParameters
  <1>2. \A r \in Resource : r.manifest \in Time /\ r.status \in SqlStatus
    BY DEF SqlParameters, Resource
  <1>3. ASSUME NEW c \in Composite, NEW observed, IsMap(observed, Resource),
               Generate(c, observed) # Fatal
        PROVE  IsMap(Generate(c, observed), Manifest)
    <2>1. Generate(c, observed) = SqlGenerate(c, observed)
      BY DEF SqlParameters
    <2>2. SqlGenerate(c, observed)
            = [n \in GeneratedNames(c) |->
                 IF n = Plain("role")
                   THEN passwordRotationTrigger(c.restored, observed)
                   ELSE NoTrigger]
      BY <1>3, <2>1 DEF SqlGenerate
    <2>3. passwordRotationTrigger(c.restored, observed) \in Time
      <3>1. \A r \in Resource : r.status.changed \in Time
        BY <1>2 DEF SqlStatus
      <3> QED BY <1>2, <1>3, <3>1, TriggerIsTime
    <2>4. GeneratedNames(c) \subseteq Name
      BY NamesAreKnown DEF SqlParameters
    <2>5. NoTrigger \in Time /\ Manifest = Time
      BY DEF NoTrigger, Time, SqlParameters
    <2> QED BY <2>1, <2>2, <2>3, <2>4, <2>5 DEF IsMap
  <1>4. ASSUME NEW n \in Name, NEW observed, IsMap(observed, Resource),
               n \in DOMAIN observed
        PROVE  Reports(n, observed) \cup Degrades(n, observed) \subseteq Status
    <2>1. observed[n] \in Resource
      BY <1>4 DEF IsMap
    <2> QED BY <1>2, <2>1, ReportsAreStatuses DEF SqlParameters
  <1> QED BY <1>1, <1>3, <1>4 DEF HandlerTypes

\* A trigger given to a Role stays as it is: the password of a restored
\* instance is set anew once, not on every pass
\* (pg_user.go, passwordRotationTrigger).
THEOREM PasswordIsRotatedOnce ==
  ASSUME SqlParameters
  PROVE  Spec => RotatedOnce
  <1>1. Spec => []TypeOK
    BY SqlTypes, TypeCorrect
  <1>2. Init => TriggerInv
    BY DEF Init, TriggerInv, HasFields, AsksForSameTrigger, ReadIsCurrent, NoRun,
           NoNames
  <1>3. TypeOK /\ TriggerInv /\ [Next]_vars => TriggerInv'
    BY TriggerStep
  <1>4. TypeOK /\ TriggerInv /\ [Next]_vars => [KeepsTrigger]_vars
    BY NextKeepsTrigger
  <1>5. [KeepsTrigger]_vars
          <=> [(/\ Role \in DOMAIN world \cap DOMAIN world'
                /\ world[Role].manifest # NoTrigger)
                 => world'[Role].manifest = world[Role].manifest]_vars
    BY DEF KeepsTrigger
  <1> QED BY <1>1, <1>2, <1>3, <1>4, <1>5, PTL DEF Spec, RotatedOnce
================================================================================
