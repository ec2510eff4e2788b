------------------------------- MODULE RdsInstance -----------------------------
(***************************************************************************)
(* PostgreSQLInstance and MariaDBInstance (functions/database/service,     *)
(* instance_common.go): the parameters they give Composition.              *)
(*                                                                         *)
(* An instance is rebuilt when its snapshotIdentifier changes: the RDS     *)
(* Instance and the ExternalSecret with its password leave the desired     *)
(* resources until the old Instance is gone.  When the engine version      *)
(* changes the instance moves to another parameter group, and the old      *)
(* group is kept until the Instance reports that it has moved.             *)
(***************************************************************************)
EXTENDS Composition

CONSTANTS
  Support,    \* the names every instance has: sg, its rules, the ProviderConfig
  Version,    \* engine versions
  Major,      \* those that name no parameter group family
  Snapshot,   \* values of snapshotIdentifier, the empty one among them
  Arn         \* ARNs of master-user secrets

None == "none"

\* A full version is a parameter group family of its own.
Family == Version \ Major

Rds == <<"instance">>
Es == <<"es">>
Group(family) == <<"parameter-group", family>>
Groups == {Group(f) : f \in Family}

RdsName == Support \cup Groups \cup {Rds, Es}

ASSUME SupportAssumption == Support \cap (Groups \cup {Rds, Es}) = {}
\* AWS has a full version to run, and no group goes by the name of another.
ASSUME VersionAssumption == Family # {} /\ Version \cap {None, "named", "default"} = {}
ASSUME ArnAssumption == None \notin Arn

\* engineVersion is None when the user leaves it to AWS; params and named say
\* whether parameterGroupParameters and parameterGroupName are given; usable,
\* whether the required resources are there and no Secret is in the way.
RdsComposite ==
  [version : Version \cup {None}, params : BOOLEAN, named : BOOLEAN,
   snapshot : Snapshot, protection : BOOLEAN, usable : BOOLEAN]

\* A group is a Family, for the one that is composed for it, or one of these.
GroupName == Family \cup {None, "named", "default"}

\* The Instance uses every field but the secret, and the ExternalSecret that
\* one; the rest is the same for every composite.
RdsManifest ==
  [version : Version \cup {None}, group : GroupName, snapshot : Snapshot \cup {None},
   protection : BOOLEAN, secret : Arn \cup {None}]

Blank == [version |-> None, group |-> None, snapshot |-> None,
          protection |-> FALSE, secret |-> None]

\* What the Instance's status.atProvider says: secret is the ARN of its
\* master-user secret, and active, whether that can be read.
RdsStatus ==
  [phase : {"new", "up", "down"}, version : Family \cup {None},
   group : GroupName, secret : Arn \cup {None}, active : BOOLEAN]

RdsNewStatus == [phase |-> "new", version |-> None, group |-> None,
                 secret |-> None, active |-> FALSE]

--------------------------------------------------------------------------------
(***************************************************************************)
(* The handler.                                                            *)
(***************************************************************************)

\* computeFamily: by the version asked for, or else the one that is running.
\* MariaDB has none for a version of one part.
computeFamily(c, observed) ==
  CASE c.version \in Family -> c.version
    [] c.version = None /\ Rds \in DOMAIN observed -> observed[Rds].status.version
    [] OTHER -> None

\* The group that the Instance reports.
ParameterGroupInUse(observed) ==
  IF Rds \in DOMAIN observed THEN observed[Rds].status.group ELSE None

rdsInstanceSwitchedTo(group, observed) ==
  Rds \in DOMAIN observed /\ ParameterGroupInUse(observed) = group

\* A handler that drops the old groups at once.
NoStaleParameterGroups(family, observed) == {}

\* keepStaleParameterGroups: every other group there is, until the Instance
\* reports that it has moved to the group of the family.
keepStaleParameterGroups(family, observed) ==
  IF rdsInstanceSwitchedTo(family, observed) THEN {}
  ELSE Groups \cap DOMAIN observed

\* applyParameterGroup: the groups that are asked for.
applyParameterGroup(c, observed) ==
  LET family == computeFamily(c, observed)
  IN IF ~c.params \/ family = None THEN {}
     ELSE {Group(family)} \cup keepStaleParameterGroups(family, observed)

\* A rebuild that goes by the status, which has no word of a snapshot.
RecreateByStatus(c, observed) ==
  Rds \in DOMAIN observed /\ c.snapshot # None

\* A rebuild that waits for the Instance to be ready.
RecreateIfUp(c, observed) ==
  /\ Rds \in DOMAIN observed
  /\ c.snapshot # observed[Rds].manifest.snapshot
  /\ observed[Rds].status.phase = "up"

recreateRDS(c, observed) ==
  Rds \in DOMAIN observed /\ c.snapshot # observed[Rds].manifest.snapshot

\* buildPgRDSInstance, buildMariaDBRDSInstance: the group is the composed one,
\* the one named by the user or the default of the family.
buildRDSInstance(c, observed) ==
  LET family == computeFamily(c, observed)
  IN [Blank EXCEPT
        !.version = c.version, !.snapshot = c.snapshot,
        !.protection = c.protection,
        !.group = CASE c.params /\ family # None -> family
                    [] ~c.params /\ c.named -> "named"
                    [] ~(c.params \/ c.named) /\ family # None -> "default"
                    [] OTHER -> None]

\* The ExternalSecret as it was, while there is no Instance to take one from.
ExternalSecretThroughRebuild(c, observed) ==
  IF Rds \in DOMAIN observed /\ ~recreateRDS(c, observed)
    THEN observed[Rds].status.active \/ Es \in DOMAIN observed
    ELSE Es \in DOMAIN observed

\* Whether an ExternalSecret is asked for: there is an Instance that is not
\* being rebuilt, and its master-user secret is active.
buildExternalSecretIfReady(c, observed) ==
  /\ Rds \in DOMAIN observed
  /\ ~recreateRDS(c, observed)
  /\ observed[Rds].status.active

\* The Instance, or an upbound.io resource, is ready when it says so; the
\* ProviderConfig and the ExternalSecret already when they say nothing.
RdsIsReady(n, resource) ==
  \/ resource.status.phase = "up"
  \/ resource.status.phase = "new" /\ n \in {<<"pc">>, Es}

\* Where an ExternalSecret is due and cannot be built, generate answers nil for
\* it, and the framework fails on converting nil.
NilExternalSecret(c, observed) ==
  /\ Rds \in DOMAIN observed
  /\ ~recreateRDS(c, observed)
  /\ ~observed[Rds].status.active
  /\ Es \in DOMAIN observed \/ RdsIsReady(Rds, observed[Rds])

\* What is asked of a generated name.  A group that is kept for the time being
\* keeps its manifest.
ManifestOf(n, c, observed) ==
  CASE n = Rds -> buildRDSInstance(c, observed)
    [] n = Es /\ Rds \in DOMAIN observed ->
         [Blank EXCEPT !.secret = observed[Rds].status.secret]
    [] n = Es /\ Rds \notin DOMAIN observed -> observed[Es].manifest
    [] OTHER -> Blank

\* generate.
RdsGenerate(c, observed) ==
  LET rds == IF recreateRDS(c, observed) THEN {} ELSE {Rds}
      es == IF buildExternalSecretIfReady(c, observed) THEN {Es} ELSE {}
  IN IF ~c.usable \/ (c.params /\ c.named) \/ NilExternalSecret(c, observed)
       THEN Fatal
       ELSE [n \in Support \cup applyParameterGroup(c, observed) \cup rds \cup es |->
               ManifestOf(n, c, observed)]

RdsSequence(c) == <<Support \cup Groups, {Rds}, {Es}>>

--------------------------------------------------------------------------------
(***************************************************************************)
(* AWS and its providers.                                                  *)
(***************************************************************************)

\* An Instance cannot move to a composed group that is not there yet, or is on
\* its way out.
GroupMissing(group, observed) ==
  /\ group \in Version
  /\ \/ Group(group) \notin DOMAIN observed
     \/ observed[Group(group)].status.phase # "up"
     \/ observed[Group(group)].deleting

\* AWS chooses what nobody asks for, and stays with it: all of the version, or
\* what is missing of it.
RunningVersion(asked, running) ==
  IF asked \in Family THEN asked
  ELSE IF running # None THEN running
  ELSE CHOOSE v \in Family : TRUE

\* The master-user secret of an Instance.  RDS makes one for every instance it
\* makes, from the same snapshot or not, and no copy there is names it already.
MasterUserSecret(observed) ==
  LET old == observed[Rds].status.secret
  IN IF old # None THEN {old}
     ELSE Arn \ {observed[n].manifest.secret : n \in {Es} \cap DOMAIN observed}

\* The secret of a new Instance may become active later than the rest.
InstanceReports(observed) ==
  LET asked == observed[Rds].manifest
      old == observed[Rds].status
  IN IF GroupMissing(asked.group, observed) THEN {[old EXCEPT !.phase = "down"]}
     ELSE {reported \in RdsStatus :
             /\ reported.phase = "up"
             /\ reported.version = RunningVersion(asked.version, old.version)
             /\ reported.group = asked.group
             /\ reported.secret \in MasterUserSecret(observed)
             /\ reported.active \/ old.phase = "new"}

RdsReports(n, observed) ==
  IF n = Rds THEN InstanceReports(observed)
  ELSE {[observed[n].status EXCEPT !.phase = "up"]}

\* Something stops being ready, or the master-user secret is being rotated.
RdsDegrades(n, observed) ==
  LET status == observed[n].status
  IN {[status EXCEPT !.phase = "down"] : x \in {"up"} \cap {status.phase}}
       \cup {[status EXCEPT !.active = FALSE] : x \in {TRUE} \cap {status.active}}

\* AWS deletes neither a protected Instance nor what an Instance uses.
RdsRemovable(n, observed) ==
  CASE n = Rds -> ~observed[Rds].manifest.protection
    [] n \in Groups -> ~(Rds \in DOMAIN observed
                           /\ Group(observed[Rds].status.group) = n)
    [] n \in Support -> Rds \notin DOMAIN observed
    [] OTHER -> TRUE

\* The user changes one field, or lifts the protection and changes the
\* snapshot at once.  The XRD refuses a new snapshot only if the composite
\* that brings it is protected.
RdsEdits(c) ==
  {e \in RdsComposite :
     /\ e # c
     /\ e.snapshot # c.snapshot => ~e.protection
     /\ \/ \E f \in DOMAIN c : \A g \in DOMAIN c \ {f} : e[g] = c[g]
        \/ \A g \in DOMAIN c \ {"protection", "snapshot"} : e[g] = c[g]}

\* That the parameters of Composition are those of this module: what the
\* theorems of RdsInstance_proofs assume, and the configurations set.
RdsParameters ==
  /\ Name = RdsName /\ Composite = RdsComposite /\ Manifest = RdsManifest
  /\ Status = RdsStatus /\ NewStatus = RdsNewStatus
  /\ \A c \in Composite : Edits(c) \subseteq RdsEdits(c)
  /\ \A c : \A observed : Generate(c, observed) = RdsGenerate(c, observed)
  /\ \A n : \A observed : /\ Reports(n, observed) = RdsReports(n, observed)
                          /\ Degrades(n, observed) = RdsDegrades(n, observed)

\* A version with a family is always given, and edits only go forward.
RdsAdvances(rank) ==
  /\ rank \in [Family -> Nat]
  /\ \A v, w \in Family : rank[v] = rank[w] => v = w
  /\ \A c \in Start : c.version \in Family
  /\ \A c : c.version \in Family =>
       \A e \in Edits(c) : e.version \in Family /\ rank[c.version] <= rank[e.version]

\* Nobody but the controller deletes the Instance, and no edit returns to a
\* snapshot that was given up.
InstanceIsLeft(rank) ==
  /\ Rds \notin Losable
  /\ rank \in [Snapshot -> Nat]
  /\ \A s, t \in Snapshot : rank[s] = rank[t] => s = t
  /\ \A c \in Composite : \A e \in Edits(c) : rank[c.snapshot] <= rank[e.snapshot]

--------------------------------------------------------------------------------
(***************************************************************************)
(* Properties.                                                             *)
(***************************************************************************)

\* Applications read the secret of another Instance than the one there is.
SecretOfAnother ==
  /\ Rds \in DOMAIN world /\ Es \in DOMAIN world
  /\ ~world[Es].deleting
  /\ world[Es].manifest.secret # world[Rds].status.secret

\* As long as only the controller deletes the Instance and no edit returns to
\* an earlier snapshot, an ExternalSecret that is not being deleted copies the
\* secret of the Instance there is: none outlives a rebuild, however the
\* passes, the deletions and the aborts interleave (instance_common.go,
\* generate).
SecretOfTheInstance == ~SecretOfAnother

\* Whatever is edited or deleted, an ExternalSecret comes to copy the secret of
\* another Instance only by a call of a pass that read one made from the same
\* snapshot: the one that was lost meanwhile, or given up and asked for again.
\* A rebuild from another snapshot leaves none behind (generate).
SecretLeavesWithSnapshot ==
  [][(~SecretOfAnother /\ SecretOfAnother') =>
       /\ Rds \in DOMAIN run.observed
       /\ run.observed[Rds].manifest.snapshot = world'[Rds].manifest.snapshot]_vars

\* Exclusive, for the snapshot that the data of the Instance comes from.
Data ==
  INSTANCE Exclusive WITH
    Holder <- Snapshot,
    holders <- {world[n].manifest.snapshot : n \in {Rds} \cap DOMAIN world}

\* An Instance is never taken to another snapshot in place: it goes, and only
\* then is one made from the other, however late a pass is (recreateRDS).
RebuiltFromScratch == Data!Spec

\* As long as the composite asks for parameters, no pass sets out to delete
\* the group that the Instance reported to be using (keepStaleParameterGroups).
GroupInUseIsKept ==
  \A v \in Family :
    (/\ Group(v) \in run.todo \ DOMAIN run.desired
     /\ Groups \cap DOMAIN run.generated # {}
     /\ Rds \in DOMAIN run.observed)
      => run.observed[Rds].status.group # v

\* The controller never deletes the parameter group that the Instance uses at
\* that very moment, as long as its pass composes parameter groups at all,
\* however old the reading of the pass (keepStaleParameterGroups).  Checked and
\* proved for versions that only advance: a return to the version that is still
\* reported drops the group of the one that is on its way.
ParameterGroupInUseStays ==
  [][\A v \in Family :
       (/\ run' # run
        /\ Group(v) \in DOMAIN world \cap DOMAIN world'
        /\ ~world[Group(v)].deleting /\ world'[Group(v)].deleting
        /\ Groups \cap DOMAIN run.generated # {})
         => ParameterGroupInUse(world) # v]_vars

\* No pass sets out to delete an Instance that is still protected:
\* "snapshotIdentifier cannot be changed when deletionProtection is enabled"
\* (compositions/postgresql/apis/instance-definition.yaml, line 91).
ProtectedIsNotRebuilt ==
  Rds \in run.todo \ DOMAIN run.desired
    => ~run.observed[Rds].manifest.protection
================================================================================
