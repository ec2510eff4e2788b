---------------------------------- MODULE Zone ---------------------------------
(***************************************************************************)
(* Zone (functions/tenancy/service): the parameters it gives Composition.  *)
(* A zone is a set of namespaces and a set of node pools for their pods.   *)
(* Every namespace gets policies, network policies and roles: those the    *)
(* Zone names, which it also makes, and those that others label with it.   *)
(* A pool is a node group made from a launch template on AWS, a node pool  *)
(* on OCI.                                                                 *)
(***************************************************************************)
EXTENDS Services

CONSTANTS
  Ns,        \* namespaces a Zone may name
  Apps,      \* the namespace of a zone for ArgoCD applications
  Other,     \* namespaces that others make
  Pool,      \* node pools
  Types,     \* instance types with the capacity type, told apart by hash
  Template   \* what a launch template may say

\* Having no zone is not a zone.
ASSUME NoneAssumption == None \notin {"this", "another"}

Namespaces == Ns \cup {Apps} \cup Other

\* A name says what it is of, and of which namespace or pool.
Namespace(ns) == <<"namespace", ns>>
MutatingPolicy(ns) == <<"kyverno-mutate", ns>>
LabelsPolicy(ns) == <<"kyverno-mutate-labels", ns>>
ValidatingPolicy(ns) == <<"kyverno-validate", ns>>
Sidecar(ns) == <<"sidecar", ns>>
NetworkPolicy(ns) == <<"netpol", ns>>
TargetPolicy(ns) == <<"netpol-target", ns>>
RoleAll(ns) == <<"rbacrole-all", ns>>
RoleRead(ns) == <<"rbacrole-read", ns>>
RoleNamespace(ns) == <<"rbacrole-namespace", ns>>
Binding(role, ns) == <<"rb", ns, role>>
LaunchTemplate(pool) == <<"launchtemplate", pool>>
NodeGroup(pool, types) == <<"nodegroup", pool, types>>
NodePool(pool) == <<"nodepool", pool>>
NodeRole == <<"role">>
Attachments == <<"rpa">>
AccessEntry == <<"ae">>
ClusterBinding == <<"crb">>
AppProject == <<"appproject">>
StoreRole == <<"secretstore-role">>
SecretStore == {StoreRole, <<"secretstore-policy">>, <<"secretstore-sa">>, <<"secretstore">>}

\* What groups of users are mapped to.
RoleRef == {"observer", "contributor", "maintainer"}

\* In a namespace, or about one.
Policies(ns) == {MutatingPolicy(ns), LabelsPolicy(ns), ValidatingPolicy(ns)}
Roles(ns) == {RoleAll(ns), RoleRead(ns), RoleNamespace(ns)}
Bindings(ns) == {Binding(role, ns) : role \in RoleRef}

\* What has no conditions, and is ready once it is there.
ZoneNative ==
  (UNION {Policies(ns) \cup Roles(ns) \cup Bindings(ns)
           \cup {Namespace(ns), Sidecar(ns), NetworkPolicy(ns), TargetPolicy(ns)} :
         ns \in Namespaces})
    \cup {ClusterBinding, AppProject, <<"secretstore-sa">>}

ZoneName ==
  ZoneNative \cup SecretStore \cup {NodeRole, Attachments, AccessEntry}
    \cup {LaunchTemplate(p) : p \in Pool} \cup {NodePool(p) : p \in Pool}
    \cup {NodeGroup(p, t) : p \in Pool, t \in Types}

\* namespaces are those the Zone names, pool the one they ask for; labelled the
\* ones of others; apps, egress and store whether the environment asks for the
\* apps namespace, sidecars and a secret store; roles those that the Zone or the
\* environment maps groups to; exposed the namespaces with an Ingress or an
\* HTTPRoute whose sources are known; drained the pools with a max-size below
\* one; usable whether the required resources are there and the pools can be
\* read, known whether the required resources have their statuses.
ZoneComposite ==
  [kind : {"Zone"}, cloud : {"aws", "oci"}, namespaces : SUBSET Ns,
   pool : Pool \cup {None}, labelled : SUBSET Other, apps : BOOLEAN, egress : BOOLEAN,
   store : BOOLEAN, roles : SUBSET RoleRef, exposed : SUBSET Namespaces,
   pools : (SUBSET Pool) \ {{}}, drained : SUBSET Pool, types : Types,
   template : Template, usable : BOOLEAN, known : BOOLEAN]

--------------------------------------------------------------------------------
(***************************************************************************)
(* The handler.                                                            *)
(***************************************************************************)

\* The namespaces that carry the zone's label and are not on their way out:
\* those of others, and the composed ones, whether they are still asked for or
\* not.
Labelled(c, observed) ==
  c.labelled \cup {ns \in Namespaces : Namespace(ns) \in DOMAIN observed
                                         /\ ~observed[Namespace(ns)].deleting}

\* A handler that looks at the namespaces the Zone names only.
NamedOnly(c, observed) == c.namespaces

\* The apps namespace comes first: what is to be made of another namespace is not
\* made of it, whoever names it.
Named(c) == c.namespaces \ {ns \in {Apps} : c.apps}

\* generateNamespaces: which namespaces are guarded.
Guarding(c, observed) ==
  Named(c) \cup (Labelled(c, observed) \ {ns \in {Apps} : c.apps})

\* generateNamespace: a binding for each role that has groups, two for some of
\* them, which come and go together; the maintainers have a role of their own.
generateNamespace(c, ns) ==
  Policies(ns) \cup {RoleAll(ns), RoleRead(ns), NetworkPolicy(ns)}
    \cup {Binding(role, ns) : role \in c.roles}
    \cup {n \in {RoleNamespace(ns)} : "maintainer" \in c.roles}
    \cup {n \in {Sidecar(ns)} : c.egress}

\* generateAppsNamespace.
generateAppsNamespace(c) ==
  {Namespace(Apps), RoleAll(Apps), RoleRead(Apps)}
    \cup {Binding(role, Apps) : role \in c.roles}

\* generateNamespaces.
generateNamespaces(c, observed) ==
  {Namespace(ns) : ns \in Named(c)}
    \cup (IF c.apps THEN generateAppsNamespace(c) ELSE {})
    \cup (UNION {generateNamespace(c, ns) : ns \in Guarding(c, observed)})

\* The pool a pod gets by default: the Zone's word for a namespace it names,
\* and otherwise the namespace's label.
DefaultPool(c, ns, observed) ==
  IF ns \in c.namespaces THEN c.pool ELSE ManifestValue(Namespace(ns), observed)

\* generateTargetNetworkPolicies, over GetUniqueNamespaces.
TargetPolicies(c, observed) ==
  {TargetPolicy(ns) : ns \in c.exposed \cap (c.namespaces \cup Labelled(c, observed))}

\* generateNodePools on AWS: the node group of a pool only while its launch
\* template has a version, and none for a drained one.
NodeGroups(c, observed) ==
  {NodeGroup(p, c.types) :
     p \in {q \in c.pools \ c.drained : Said(LaunchTemplate(q), observed) # None}}

\* generateNodePools on OCI.
NodePools(c) == {NodePool(p) : p \in c.pools \ c.drained}

Version(p, observed) ==
  IF Said(LaunchTemplate(p), observed) = None THEN None
  ELSE Said(LaunchTemplate(p), observed).version

AwsNames(c, observed) ==
  {LaunchTemplate(p) : p \in c.pools} \cup {NodeRole, Attachments, AccessEntry}
    \cup NodeGroups(c, observed)
    \cup (IF c.store THEN SecretStore ELSE {})

\* A secret store needs to know the cluster.
ZoneFails(c) ==
  ~c.usable \/ (c.cloud = "aws" /\ c.store /\ ~c.known)

ZoneGenerate(c, observed) ==
  LET names ==
        generateNamespaces(c, observed) \cup {AppProject}
          \cup {n \in {ClusterBinding} : "contributor" \in c.roles}
          \cup TargetPolicies(c, observed)
          \cup (IF c.cloud = "aws" THEN AwsNames(c, observed)
                  ELSE NodePools(c))
      about(n) ==
        CASE n[1] = "namespace" /\ n[2] \in Named(c) -> c.pool
          [] n[1] = "kyverno-mutate" -> DefaultPool(c, n[2], observed)
          [] n[1] = "kyverno-validate" -> c.pools
          [] n[1] = "launchtemplate" -> c.template
          [] n[1] = "nodegroup" -> Version(n[2], observed)
          [] n[1] = "nodepool" -> c.types
          [] OTHER -> None
  IN IF ZoneFails(c) THEN Fatal ELSE [n \in names |-> Asked(c, about(n))]

\* A sequence in which the node groups come before what their nodes need.
NodesFirst(c) ==
  <<(UNION {{Namespace(ns), MutatingPolicy(ns), LabelsPolicy(ns)} : ns \in Namespaces})
      \cup {LaunchTemplate(p) : p \in Pool},
    (UNION {Bindings(ns) : ns \in Namespaces}) \cup {NodePool(p) : p \in Pool}
      \cup {NodeGroup(p, t) : p \in Pool, t \in Types},
    (UNION {{NetworkPolicy(ns), TargetPolicy(ns), Sidecar(ns), ValidatingPolicy(ns)} :
             ns \in Namespaces}) \cup {NodeRole},
    (UNION {Roles(ns) : ns \in Namespaces}) \cup {Attachments, AccessEntry, ClusterBinding}>>

\* GetSequence: the project and the secret store are in no step.
ZoneSequence(c) ==
  <<(UNION {{Namespace(ns), MutatingPolicy(ns), LabelsPolicy(ns)} : ns \in Namespaces})
      \cup {LaunchTemplate(p) : p \in Pool},
    (UNION {{NetworkPolicy(ns), TargetPolicy(ns), Sidecar(ns), ValidatingPolicy(ns)} :
             ns \in Namespaces}) \cup {NodeRole},
    (UNION {Roles(ns) : ns \in Namespaces}) \cup {Attachments, AccessEntry, ClusterBinding},
    (UNION {Bindings(ns) : ns \in Namespaces}) \cup {NodePool(p) : p \in Pool}
      \cup {NodeGroup(p, t) : p \in Pool, t \in Types}>>

--------------------------------------------------------------------------------
(***************************************************************************)
(* The clouds and their providers, and the user.                           *)
(***************************************************************************)

\* A launch template gets another version whenever it is changed; a node group
\* needs the version it is to run.
ZoneReports(n, observed) ==
  LET said == Said(n, observed)
      template == observed[n].manifest.value
      version == CASE said = None -> 1
                   [] said # None /\ said.template = template -> said.version
                   [] OTHER -> said.version + 1
  IN CASE n \in ZoneNative -> {}
       [] n[1] = "launchtemplate" ->
            Provided(n, observed, {}, [template |-> template, version |-> version])
       [] n[1] = "nodegroup" ->
            Provided(n, observed, {NodeRole, LaunchTemplate(n[2])},
                     observed[n].manifest.value)
       [] n \in {Attachments, AccessEntry} -> Provided(n, observed, {NodeRole}, None)
       [] n = <<"secretstore-policy">> -> Provided(n, observed, {StoreRole}, None)
       [] OTHER -> Provided(n, observed, {}, None)

\* What is in a namespace goes with it, and counts as there again as long as it
\* is asked for.
ZoneRemovable(n, observed) == TRUE

\* One thing changes.  The cloud does not.
ZoneEdits(c) ==
  {[c EXCEPT !.namespaces = x] : x \in SUBSET Ns}
    \cup {[c EXCEPT !.pool = x] : x \in Pool \cup {None}}
    \cup {[c EXCEPT !.labelled = x] : x \in SUBSET Other}
    \cup {[c EXCEPT !.apps = x] : x \in BOOLEAN}
    \cup {[c EXCEPT !.egress = x] : x \in BOOLEAN}
    \cup {[c EXCEPT !.store = x] : x \in BOOLEAN}
    \cup {[c EXCEPT !.roles = x] : x \in SUBSET RoleRef}
    \cup {[c EXCEPT !.exposed = x] : x \in SUBSET Namespaces}
    \cup {[c EXCEPT !.pools = x] : x \in (SUBSET Pool) \ {{}}}
    \cup {[c EXCEPT !.drained = x] : x \in SUBSET Pool}
    \cup {[c EXCEPT !.types = x] : x \in Types}
    \cup {[c EXCEPT !.template = x] : x \in Template}
    \cup {[c EXCEPT !.usable = x] : x \in BOOLEAN}
    \cup {[c EXCEPT !.known = x] : x \in BOOLEAN}

\* Composition for Zone: assumed by the theorems of Zone_proofs.
ZoneParameters ==
  /\ \A c : \A observed : Generate(c, observed) = ZoneGenerate(c, observed)
  /\ \A c : Sequence(c) = ZoneSequence(c)

\* Nobody but the controller deletes the policies of namespaces that the Zone
\* names.
PoliciesAreLeft ==
  \A ns \in Ns : {MutatingPolicy(ns), ValidatingPolicy(ns)} \cap Losable = {}

--------------------------------------------------------------------------------
(***************************************************************************)
(* Where pods run.  The label of a pool may be the label of a pool of      *)
(* another zone as well.                                                   *)
(***************************************************************************)

\* The node selector of a pod, and the labels of a node, by zone and by pool.
Selector == [zone : {"this", "another", None}, pool : Pool \cup {"foreign", None}]
Node ==
  {[zone |-> None, pool |-> None]}
    \cup [zone : {"this"}, pool : Pool]
    \cup [zone : {"another"}, pool : Pool \cup {"foreign"}]

Selects(s, node) ==
  s.zone \in {None, node.zone} /\ s.pool \in {None, node.pool}

\* getMutatingPolicy: the zone over what the pod says, the pool as a default.
Mutated(s, pool) ==
  [zone |-> "this", pool |-> IF s.pool = None THEN pool ELSE s.pool]

\* getValidatingPolicy.
Validated(s, pools) == s.zone = "this" /\ s.pool \in {None} \cup pools

\* A policy is there to stay.
InForce(n, resources) == n \in DOMAIN resources /\ ~resources[n].deleting

\* What becomes of a pod's selector, if the pod is admitted.
Admitted(s, ns, resources) ==
  LET mutated == IF InForce(MutatingPolicy(ns), resources)
                   THEN Mutated(s, resources[MutatingPolicy(ns)].manifest.value) ELSE s
  IN IF InForce(ValidatingPolicy(ns), resources)
       THEN {x \in {mutated} : Validated(x, resources[ValidatingPolicy(ns)].manifest.value)}
       ELSE {mutated}

\* No pod of the namespace gets onto a node outside of the zone.
Isolated(ns, resources) ==
  \A s \in Selector : \A x \in Admitted(s, ns, resources) :
    \A node \in Node : Selects(x, node) => node.zone = "this"

--------------------------------------------------------------------------------
(***************************************************************************)
(* Properties.                                                             *)
(***************************************************************************)

\* A namespace the Zone has made stays isolated from the moment it is, for as
\* long as it is not on its way out, whatever becomes of the Zone meanwhile:
\* one that the Zone no longer names keeps its policies until its deletion has
\* begun (zone.go, generateNamespaces, getMutatingPolicy, getValidatingPolicy).
\* The apps namespace is for applications, and has no policies of its own.
NamespaceStaysIsolated ==
  [][\A ns \in Ns \ {Apps} :
       (/\ InForce(Namespace(ns), world) /\ InForce(Namespace(ns), world')
        /\ Isolated(ns, world))
         => Isolated(ns, world')]_vars

\* A node group never comes before what lets its nodes into the cluster: it is
\* there only when a role, what is attached to it and an access entry for it have
\* been ready (zone_aws.go, generateNodePools; group.go, GetSequence).
NodesCanJoin ==
  \A p \in Pool, t \in Types :
    NodeGroup(p, t) \in DOMAIN world => {NodeRole, Attachments, AccessEntry} \subseteq wasReady
================================================================================
