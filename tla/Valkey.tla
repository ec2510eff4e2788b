--------------------------------- MODULE Valkey --------------------------------
(***************************************************************************)
(* ValkeyInstance (functions/database/service/valkey_instance.go): the     *)
(* parameters it gives Composition.  A replication group in a security     *)
(* group, its parameter group by engine family, an ingress rule for every  *)
(* compute subnet, and the token of the replication group copied into a    *)
(* Secret and from there into Secrets Manager.                             *)
(***************************************************************************)
EXTENDS Services

CONSTANTS
  Family,    \* engine versions, each a parameter group family of its own
  Subnet     \* compute subnets

\* What is composed for a family is not what goes by another name.
ASSUME FamilyAssumption == Family \cap {None, "named", "default"} = {}

Rg == <<"replication-group">>
ValkeySg == <<"security-group">>
ValkeyGroup(family) == <<"parameter-group", family>>
ValkeyGroups == {ValkeyGroup(f) : f \in Family}
SgIngress(subnet) == <<"sg-ingress", subnet>>
SgIngresses == {SgIngress(s) : s \in Subnet}

ValkeyName == {Rg, ValkeySg} \cup ValkeyGroups \cup SgIngresses

\* params and named say whether parameterGroupParameters and
\* parameterGroupName are given, subnets which of the compute subnets report a
\* CIDR block, usable whether the required resources are there.
ValkeyComposite ==
  [kind : {"Valkey"}, version : Family \cup {None}, params : BOOLEAN,
   named : BOOLEAN, subnets : SUBSET Subnet, known : BOOLEAN, usable : BOOLEAN]

--------------------------------------------------------------------------------
(***************************************************************************)
(* The handler.                                                            *)
(***************************************************************************)

\* engineVersionActual, and the parameter group in use, are read from the
\* replication group: its status says both, and the token goes with them.
EngineVersionActual(observed) ==
  IF Said(Rg, observed) = None THEN None ELSE Said(Rg, observed).version

GroupInUse(observed) ==
  IF Said(Rg, observed) = None THEN None ELSE Said(Rg, observed).group

TokenInUse(observed) ==
  IF Said(Rg, observed) = None THEN None ELSE Said(Rg, observed).token

\* A handler that takes the token from its own copy of it.
CopiedToken(observed) ==
  IF ManifestValue(Credentials, observed) # None
    THEN ManifestValue(Credentials, observed) ELSE TokenInUse(observed)

\* The auth token among the connection details of the replication group.
AuthToken(observed) == TokenInUse(observed)

\* computeValkeyFamily: by the version asked for, or else the one that runs.
computeValkeyFamily(c, observed) ==
  IF c.version # None THEN c.version ELSE EngineVersionActual(observed)

\* A handler that drops the old groups at once.
NoStaleGroups(family, observed) == {}

\* keepStaleParameterGroups: every other group there is, until the replication
\* group reports that it has moved to the group of the family.
keepStaleGroups(family, observed) ==
  IF GroupInUse(observed) = family THEN {} ELSE ValkeyGroups \cap DOMAIN observed

\* The parameter groups that are asked for.
ValkeyParameterGroups(c, observed) ==
  LET family == computeValkeyFamily(c, observed)
  IN IF ~c.params \/ family = None THEN {}
     ELSE {ValkeyGroup(family)} \cup keepStaleGroups(family, observed)

\* The group of the replication group: the composed one, the one the user
\* names, the default of the family, or none while the family is unknown.
buildReplicationGroup(c, observed) ==
  LET family == computeValkeyFamily(c, observed)
  IN Asked(c, [version |-> c.version,
               group |-> CASE c.params /\ family # None -> family
                           [] ~c.params /\ c.named -> "named"
                           [] ~(c.params \/ c.named) /\ family # None -> "default"
                           [] OTHER -> None])

\* A rule for each compute subnet that reports a CIDR block.
buildSecurityGroupRules(c) == {SgIngress(s) : s \in c.subnets}

\* buildSecretsManagerResources: the version of the secret only once the Secret
\* it is made from has been observed.
ValkeySecrets(observed) ==
  {Secret} \cup {n \in {SecretVersion} : Credentials \in DOMAIN observed}

\* buildCredentialsSecret: only while the replication group has a token.
ValkeyCredentials(observed) ==
  {n \in {Credentials} : AuthToken(observed) # None}

ValkeyGenerate(c, observed) ==
  IF ~c.usable \/ (c.params /\ c.named) THEN Fatal
  ELSE [n \in {Rg, ValkeySg} \cup ValkeyParameterGroups(c, observed)
               \cup buildSecurityGroupRules(c)
               \cup ValkeySecrets(observed) \cup ValkeyCredentials(observed) |->
          CASE n = Rg -> buildReplicationGroup(c, observed)
            [] n = Credentials -> Asked(c, AuthToken(observed))
            [] OTHER -> Asked(c, None)]

ValkeySequence(c) ==
  <<{ValkeySg} \cup ValkeyGroups, {Rg}, SgIngresses, {Secret, Credentials},
    {SecretVersion}>>

--------------------------------------------------------------------------------
(***************************************************************************)
(* AWS and its providers, and the user.                                    *)
(***************************************************************************)

\* A replication group cannot move to a composed group that is not there yet,
\* or is on its way out; with none given it stays where it is.  A new one has
\* a token of its own.
ValkeyReports(n, observed) ==
  LET resource == observed[n]
      group == IF resource.manifest.value.group = None
                 THEN GroupInUse(observed) ELSE resource.manifest.value.group
      missing == group \in Family
                   /\ \/ ~IsUp(ValkeyGroup(group), observed)
                      \/ observed[ValkeyGroup(group)].deleting
      running == CASE resource.manifest.value.version # None -> resource.manifest.value.version
                   [] EngineVersionActual(observed) # None -> EngineVersionActual(observed)
                   [] OTHER -> CHOOSE f \in Family : TRUE
      token == IF TokenInUse(observed) = None THEN generatePassword(observed)
                 ELSE TokenInUse(observed)
  IN CASE n = Rg /\ missing -> {[resource.status EXCEPT !.phase = "down"]}
       [] n = Rg /\ ~missing ->
            Provided(n, observed, {ValkeySg},
                     [version |-> running, group |-> group, token |-> token])
       [] n \in SgIngresses -> Provided(n, observed, {ValkeySg}, None)
       [] OTHER -> Provided(n, observed, {}, None)

\* AWS deletes nothing that the replication group uses.
ValkeyRemovable(n, observed) ==
  CASE n \in ValkeyGroups -> \A f \in Family : n = ValkeyGroup(f) => GroupInUse(observed) # f
    [] n = ValkeySg -> Rg \notin DOMAIN observed
    [] OTHER -> TRUE

\* The user changes one field, or what is required changes.
ValkeyEdits(c) ==
  {e \in ValkeyComposite : \E f \in DOMAIN c :
     e[f] # c[f] /\ \A g \in DOMAIN c \ {f} : e[g] = c[g]}

\* Composition for ValkeyInstance: assumed by the theorems of Services_proofs.
ValkeyParameters ==
  /\ NewStatus = ServiceNewStatus
  /\ \A c : \A observed : Generate(c, observed) = ValkeyGenerate(c, observed)
  /\ \A n \in ValkeyName : \A observed :
       /\ Reports(n, observed) = ValkeyReports(n, observed)
       /\ Degrades(n, observed) = ServiceDegrades(n, observed)

\* A version is always given, and edits only go forward.
ValkeyAdvances(rank) ==
  /\ rank \in [Family -> Nat]
  /\ \A f, g \in Family : rank[f] = rank[g] => f = g
  /\ \A c \in Start : c.version \in Family
  /\ \A c : c.version \in Family =>
       \A e \in Edits(c) : e.version \in Family /\ rank[c.version] <= rank[e.version]

--------------------------------------------------------------------------------
(***************************************************************************)
(* Properties.                                                             *)
(***************************************************************************)

\* The controller never deletes a parameter group that the replication group
\* uses at that very moment, as long as its pass composes parameter groups at
\* all, however old the reading of the pass (keepStaleParameterGroups).  Checked
\* and proved for versions that only advance: a return to the version that is
\* still reported drops the group of the one that is on its way.
ValkeyGroupInUseStays ==
  [][\A f \in Family :
       (/\ run' # run
        /\ ValkeyGroup(f) \in DOMAIN world \cap DOMAIN world'
        /\ ~world[ValkeyGroup(f)].deleting /\ world'[ValkeyGroup(f)].deleting
        /\ ValkeyGroups \cap DOMAIN run.generated # {})
         => GroupInUse(world) # f]_vars

\* Once the disruptions are over and all is known, Secrets Manager holds the
\* token of the replication group there is: a new one after a loss replaces
\* the old in both copies.
ValkeyTokenArrives ==
  <>[](composite.kind = "Valkey" /\ composite.known
         /\ Generate(composite, world) # Fatal)
    => <>[](/\ TokenInUse(world) # None
            /\ Said(SecretVersion, world) = TokenInUse(world))
================================================================================
