------------------------------- MODULE Zone_proofs -----------------------------
(***************************************************************************)
(* Zone, for any namespaces, pools, types and templates: whom its node     *)
(* groups wait for, and what stays around its namespaces.                  *)
(***************************************************************************)
EXTENDS Zone, Composition_proofs

(***************************************************************************)
(* A resource that one step names is created after what its pass generated *)
(* for the step before.                                                    *)
(***************************************************************************)

OnlyInStep(n, steps, i) ==
  /\ i \in DOMAIN steps
  /\ \A j \in DOMAIN steps : n \in steps[j] <=> j = i

LEMMA CreatedAfter ==
  ASSUME NEW steps, NEW generated, NEW observed, NEW i, i # 1, NEW n, NEW m,
         n \in DOMAIN Sequenced(steps, generated, observed), n \notin DOMAIN observed,
         OnlyInStep(n, steps, i), m \in steps[i - 1] \cap DOMAIN generated
  PROVE  m \in Ready(observed)
  <1>1. GateOpen(steps, i, generated, observed)
    BY DEF Sequenced, OnlyInStep
  <1> QED BY <1>1 DEF GateOpen, StepReady, ReadyIn, Ready

--------------------------------------------------------------------------------
(***************************************************************************)
(* NodesCanJoin is not inductive: a pass may be about to make a node       *)
(* group, and an access entry may lack its role.                           *)
(***************************************************************************)

EntryFollowsRole ==
  AccessEntry \in DOMAIN world \cup DOMAIN run.desired \cup wasReady
    => NodeRole \in wasReady

GroupsFollowEntry ==
  \A p \in Pool, t \in Types :
    NodeGroup(p, t) \in DOMAIN world \cup DOMAIN run.desired
      => {Attachments, AccessEntry} \subseteq wasReady

JoinInv ==
  /\ HasFields(run)
  /\ Ready(world) \subseteq wasReady
  /\ EntryFollowsRole
  /\ GroupsFollowEntry

LEMMA StepsOfZone ==
  ASSUME NEW c
  PROVE  LET steps == ZoneSequence(c)
         IN /\ NodeRole \in steps[2]
            /\ OnlyInStep(AccessEntry, steps, 3)
            /\ {Attachments, AccessEntry} \subseteq steps[3]
            /\ \A p \in Pool, t \in Types : OnlyInStep(NodeGroup(p, t), steps, 4)
  <1> DEFINE first == (UNION {{Namespace(ns), MutatingPolicy(ns), LabelsPolicy(ns)} :
                               ns \in Namespaces})
                        \cup {LaunchTemplate(p) : p \in Pool}
             second == (UNION {{NetworkPolicy(ns), TargetPolicy(ns), Sidecar(ns),
                               ValidatingPolicy(ns)} : ns \in Namespaces}) \cup {NodeRole}
             third == (UNION {Roles(ns) : ns \in Namespaces})
                        \cup {Attachments, AccessEntry, ClusterBinding}
             fourth == (UNION {Bindings(ns) : ns \in Namespaces})
                         \cup {NodePool(p) : p \in Pool}
                         \cup {NodeGroup(p, t) : p \in Pool, t \in Types}
  <1>1. ZoneSequence(c) = <<first, second, third, fourth>>
    BY DEF ZoneSequence
  <1>2. NodeRole \in second /\ {Attachments, AccessEntry} \subseteq third
    OBVIOUS
  <1>3. AccessEntry \notin first \cup second \cup fourth
    BY DEF AccessEntry, Namespace, MutatingPolicy, LabelsPolicy, LaunchTemplate,
           NetworkPolicy, TargetPolicy, Sidecar, ValidatingPolicy, NodeRole,
           Bindings, Binding, NodePool, NodeGroup
  <1>4. ASSUME NEW p \in Pool, NEW t \in Types
        PROVE  NodeGroup(p, t) \notin first \cup second \cup third
    BY DEF AccessEntry, Namespace, MutatingPolicy, LabelsPolicy, LaunchTemplate,
           NetworkPolicy, TargetPolicy, Sidecar, ValidatingPolicy, NodeRole, Roles,
           RoleAll, RoleRead, RoleNamespace, Attachments, ClusterBinding, NodeGroup
  <1>5. ASSUME NEW p \in Pool, NEW t \in Types
        PROVE  NodeGroup(p, t) \in fourth
    OBVIOUS
  <1> HIDE DEF first, second, third, fourth
  <1> QED BY <1>1, <1>2, <1>3, <1>4, <1>5 DEF OnlyInStep

\* Where nodes are groups, they have a role with its attachments and an entry.
LEMMA GeneratedForNodes ==
  ASSUME NEW c, NEW observed, ZoneGenerate(c, observed) # Fatal
  PROVE  LET names == DOMAIN ZoneGenerate(c, observed)
         IN /\ AccessEntry \in names => NodeRole \in names
            /\ \A p \in Pool, t \in Types :
                 NodeGroup(p, t) \in names => {Attachments, AccessEntry} \subseteq names
  <1> DEFINE aws == IF c.cloud = "aws" THEN AwsNames(c, observed) ELSE NodePools(c)
             names == generateNamespaces(c, observed) \cup {AppProject}
                        \cup {n \in {ClusterBinding} : "contributor" \in c.roles}
                        \cup TargetPolicies(c, observed) \cup aws
  <1>1. DOMAIN ZoneGenerate(c, observed) = names
    BY DEF ZoneGenerate
  <1>2. c.cloud = "aws" => {NodeRole, Attachments, AccessEntry} \subseteq aws
    BY DEF AwsNames
  <1>3. ASSUME NEW n, n = AccessEntry \/ \E p \in Pool, t \in Types : n = NodeGroup(p, t),
               n \in names
        PROVE  c.cloud = "aws"
    <2>1. n \notin generateNamespaces(c, observed)
      BY <1>3 DEF generateNamespaces, generateAppsNamespace, generateNamespace, Policies,
                  Namespace, MutatingPolicy, LabelsPolicy, ValidatingPolicy,
                  NetworkPolicy, Sidecar, RoleAll, RoleRead, RoleNamespace, Binding,
                  AccessEntry, NodeGroup
    <2>2. n \notin {AppProject, ClusterBinding} \cup TargetPolicies(c, observed)
      BY <1>3 DEF TargetPolicies, TargetPolicy, AppProject, ClusterBinding,
                  AccessEntry, NodeGroup
    <2>3. n \notin NodePools(c)
      BY <1>3 DEF NodePools, NodePool, AccessEntry, NodeGroup
    <2> QED BY <1>3, <2>1, <2>2, <2>3
  <1> HIDE DEF aws
  <1> QED BY <1>1, <1>2, <1>3

LEMMA JoinInitially == Init => JoinInv
  BY DEF Init, JoinInv, HasFields, EntryFollowsRole, GroupsFollowEntry, Ready, NoRun,
         NoNames

LEMMA PassOnJoins ==
  ASSUME ZoneParameters, JoinInv, run' = PassOn(composite, world), world' = world,
         wasReady' = wasReady
  PROVE  JoinInv'
  <1>1. HasFields(run') /\ Ready(world') \subseteq wasReady'
    BY PassOnFacts DEF JoinInv
  <1>2. CASE run' = NoRun
    BY <1>1, <1>2 DEF JoinInv, EntryFollowsRole, GroupsFollowEntry, NoRun, NoNames,
                      HasFields
  <1>3. CASE run' # NoRun
    <2> DEFINE generated == ZoneGenerate(composite, world)
               steps == ZoneSequence(composite)
    <2>1. /\ generated # Fatal
          /\ run'.desired = Sequenced(steps, generated, world)
      BY <1>3, PassOnFacts DEF ZoneParameters
    <2>2. DOMAIN run'.desired \subseteq DOMAIN generated
      BY <2>1, SequencedFacts
    <2> HIDE DEF generated, steps
    <2>3. /\ AccessEntry \in DOMAIN generated => NodeRole \in DOMAIN generated
          /\ \A p \in Pool, t \in Types :
               NodeGroup(p, t) \in DOMAIN generated
                 => {Attachments, AccessEntry} \subseteq DOMAIN generated
      BY <2>1, GeneratedForNodes DEF generated
    <2>4. /\ NodeRole \in steps[2] /\ OnlyInStep(AccessEntry, steps, 3)
          /\ {Attachments, AccessEntry} \subseteq steps[3]
          /\ \A p \in Pool, t \in Types : OnlyInStep(NodeGroup(p, t), steps, 4)
      BY StepsOfZone DEF steps
    <2>5. ASSUME AccessEntry \in DOMAIN run'.desired, AccessEntry \notin DOMAIN world
          PROVE  NodeRole \in Ready(world)
      <3>1. NodeRole \in steps[2] \cap DOMAIN generated
        BY <2>2, <2>3, <2>4, <2>5
      <3>2. AccessEntry \in DOMAIN Sequenced(steps, generated, world)
        BY <2>1, <2>5
      <3>3. NodeRole \in steps[3 - 1] \cap DOMAIN generated
        BY <3>1
      <3>4. OnlyInStep(AccessEntry, steps, 3) /\ 3 # 1
        BY <2>4
      <3> QED BY <2>5, <3>2, <3>3, <3>4, CreatedAfter, Zenon
    <2>6. ASSUME NEW p \in Pool, NEW t \in Types, NEW m \in {Attachments, AccessEntry},
                 NodeGroup(p, t) \in DOMAIN run'.desired, NodeGroup(p, t) \notin DOMAIN world
          PROVE  m \in Ready(world)
      <3>1. m \in steps[3] \cap DOMAIN generated
        BY <2>2, <2>3, <2>4, <2>6
      <3>2. NodeGroup(p, t) \in DOMAIN Sequenced(steps, generated, world)
        BY <2>1, <2>6
      <3>3. m \in steps[4 - 1] \cap DOMAIN generated
        BY <3>1
      <3>4. OnlyInStep(NodeGroup(p, t), steps, 4) /\ 4 # 1
        BY <2>4
      <3> QED BY <2>6, <3>2, <3>3, <3>4, CreatedAfter, Zenon
    <2> QED BY <1>1, <2>5, <2>6 DEF JoinInv, EntryFollowsRole, GroupsFollowEntry, HasFields
  <1> QED BY <1>2, <1>3

\* What there is after a step was there before, or the pass asked for it.
LEMMA WorldGrowth ==
  ASSUME [Next]_vars
  PROVE  /\ DOMAIN world' \subseteq DOMAIN world \cup DOMAIN run.desired
         /\ \/ UNCHANGED <<world, wasReady>>
            \/ wasReady' = wasReady \cup Ready(world')
  <1>1. \/ UNCHANGED <<world, wasReady>>
        \/ /\ wasReady' = wasReady \cup Ready(world')
           /\ \/ DOMAIN world' \subseteq DOMAIN world
              \/ \E n \in DOMAIN run.desired : DOMAIN world' = DOMAIN world \cup {n}
    BY DEF Next, vars, Reconcile, GarbageCollect, Apply, Report, Remove, Edit, Degrade,
           Lose, Abort, SetWorld
  <1> QED BY <1>1

LEMMA JoinStep ==
  ASSUME ZoneParameters, JoinInv, [Next]_vars
  PROVE  JoinInv'
  <1>1. CASE Reconcile
    BY <1>1, PassOnJoins DEF Reconcile
  <1>2. CASE HasFields(run') /\ DOMAIN run'.desired \subseteq DOMAIN run.desired
    <2>1. /\ wasReady \subseteq wasReady'
          /\ Ready(world') \subseteq wasReady'
          /\ wasReady' \subseteq wasReady \cup DOMAIN world'
      BY WorldGrowth DEF JoinInv, Ready
    <2>2. DOMAIN world' \cup DOMAIN run'.desired \subseteq DOMAIN world \cup DOMAIN run.desired
      BY <1>2, WorldGrowth
    <2> QED BY <1>2, <2>1, <2>2 DEF JoinInv, EntryFollowsRole, GroupsFollowEntry, HasFields
  <1>3. CASE run' = NoRun
    BY <1>2, <1>3 DEF NoRun, NoNames, HasFields
  <1> QED BY <1>1, <1>2, <1>3, RunChange DEF JoinInv

\* On AWS, whatever pools are added, drained or given other types, no node group
\* comes before the role of its nodes, the policies attached to it and their
\* access entry have been ready.
THEOREM NodesJoin ==
  ASSUME ZoneParameters
  PROVE  Spec => []NodesCanJoin
  <1>1. JoinInv /\ [Next]_vars => JoinInv'
    BY JoinStep
  <1>2. JoinInv => NodesCanJoin
    BY DEF JoinInv, EntryFollowsRole, GroupsFollowEntry, NodesCanJoin
  <1> QED BY <1>1, <1>2, JoinInitially, PTL DEF Spec

--------------------------------------------------------------------------------
(***************************************************************************)
(* NamespaceStaysIsolated needs to know whose policies a pass collects.    *)
(***************************************************************************)

Isolating(ns) == {MutatingPolicy(ns), ValidatingPolicy(ns)}

\* A pass that collects a policy finds its namespace gone or going, and does not
\* make it anew.
CollectsOfTheGone ==
  \A ns \in Ns \ {Apps} : \A n \in Isolating(ns) :
    n \in run.todo \ DOMAIN run.desired
      => /\ ~InForce(Namespace(ns), world)
         /\ Namespace(ns) \notin DOMAIN run.desired

IsolationInv == HasFields(run) /\ CollectsOfTheGone

LEMMA ZoneNamesDiffer ==
  ASSUME NEW ns, NEW other
  PROVE  /\ Namespace(ns) = Namespace(other) => ns = other
         /\ Namespace(ns) \notin Isolating(other)
  BY DEF Namespace, Isolating, MutatingPolicy, ValidatingPolicy

\* A namespace is isolated by either of its policies and by nothing else: one
\* gives every pod the zone, the other admits none without it.
LEMMA IsolatedByPolicies ==
  ASSUME NEW ns, NEW resources
  PROVE  Isolated(ns, resources) <=> \E n \in Isolating(ns) : InForce(n, resources)
  <1>1. ASSUME NEW s, s.zone = "this", NEW node \in Node, Selects(s, node)
        PROVE  node.zone = "this"
    BY <1>1, NoneAssumption DEF Selects
  <1>2. ASSUME InForce(MutatingPolicy(ns), resources),
               NEW s \in Selector, NEW x \in Admitted(s, ns, resources)
        PROVE  x.zone = "this"
    <2>1. x = Mutated(s, resources[MutatingPolicy(ns)].manifest.value)
      BY <1>2 DEF Admitted
    <2> QED BY <2>1 DEF Mutated
  <1>3. ASSUME InForce(ValidatingPolicy(ns), resources),
               NEW s \in Selector, NEW x \in Admitted(s, ns, resources)
        PROVE  x.zone = "this"
    BY <1>3 DEF Admitted, Validated
  <1>4. ASSUME ~InForce(MutatingPolicy(ns), resources),
               ~InForce(ValidatingPolicy(ns), resources)
        PROVE  ~Isolated(ns, resources)
    <2> DEFINE bare == [zone |-> None, pool |-> None]
    <2>1. bare \in Selector /\ bare \in Node
      BY DEF Selector, Node
    <2>2. bare \in Admitted(bare, ns, resources)
      BY <1>4 DEF Admitted
    <2>3. Selects(bare, bare) /\ bare.zone # "this"
      BY NoneAssumption DEF Selects
    <2> QED BY <2>1, <2>2, <2>3 DEF Isolated
  <1> QED BY <1>1, <1>2, <1>3, <1>4 DEF Isolated, Isolating

\* A namespace that the function asks for, or finds there to stay, gets its
\* policies.
LEMMA GeneratedPolicies ==
  ASSUME NEW c, NEW observed, ZoneGenerate(c, observed) # Fatal,
         NEW ns \in Ns \ {Apps},
         Namespace(ns) \in DOMAIN ZoneGenerate(c, observed)
           \/ InForce(Namespace(ns), observed)
  PROVE  Isolating(ns) \subseteq DOMAIN ZoneGenerate(c, observed)
  <1> DEFINE others == {AppProject} \cup {n \in {ClusterBinding} : "contributor" \in c.roles}
                         \cup TargetPolicies(c, observed)
                         \cup (IF c.cloud = "aws" THEN AwsNames(c, observed)
                                 ELSE NodePools(c))
  <1>1. DOMAIN ZoneGenerate(c, observed) = generateNamespaces(c, observed) \cup others
    BY DEF ZoneGenerate
  <1>2. Namespace(ns) \notin others
    BY DEF Namespace, AppProject, ClusterBinding, TargetPolicies, TargetPolicy, AwsNames,
           NodeGroups, NodeGroup, NodePools, NodePool, LaunchTemplate, NodeRole,
           Attachments, AccessEntry, SecretStore, StoreRole
  <1>3. Namespace(ns) \in generateNamespaces(c, observed) => ns \in Named(c)
    BY ZoneNamesDiffer
       DEF generateNamespaces, generateAppsNamespace, generateNamespace, Policies,
           Namespace, MutatingPolicy, LabelsPolicy, ValidatingPolicy, NetworkPolicy,
           Sidecar, RoleAll, RoleRead, RoleNamespace, Binding
  <1>4. InForce(Namespace(ns), observed) => ns \in Labelled(c, observed)
    BY DEF InForce, Labelled, Namespaces
  <1>5. ns \in Guarding(c, observed)
    BY <1>1, <1>2, <1>3, <1>4 DEF Guarding
  <1>6. Isolating(ns) \subseteq generateNamespace(c, ns)
    BY DEF Isolating, generateNamespace, Policies
  <1>7. generateNamespace(c, ns) \subseteq generateNamespaces(c, observed)
    BY <1>5 DEF generateNamespaces
  <1> QED BY <1>1, <1>6, <1>7

LEMMA IsolationInitially == Init => IsolationInv
  BY DEF Init, IsolationInv, HasFields, CollectsOfTheGone, NoRun, NoNames

LEMMA PassOnIsolates ==
  ASSUME ZoneParameters, run' = PassOn(composite, world), world' = world
  PROVE  IsolationInv'
  <1>1. HasFields(run')
    BY PassOnFacts
  <1>2. CASE run' = NoRun
    BY <1>1, <1>2 DEF IsolationInv, HasFields, CollectsOfTheGone, NoRun
  <1>3. CASE run' # NoRun
    <2> DEFINE generated == ZoneGenerate(composite, world)
    <2>1. /\ generated # Fatal
          /\ run'.desired = Sequenced(Sequence(composite), generated, world)
          /\ run'.todo \ DOMAIN run'.desired \subseteq DOMAIN world
      BY <1>3, PassOnFacts DEF ZoneParameters
    <2>2. /\ DOMAIN run'.desired \subseteq DOMAIN generated
          /\ DOMAIN generated \cap DOMAIN world \subseteq DOMAIN run'.desired
      BY <2>1, SequencedFacts
    <2>3. ASSUME NEW ns \in Ns \ {Apps}, NEW n \in Isolating(ns),
                 n \in run'.todo \ DOMAIN run'.desired
          PROVE  /\ ~InForce(Namespace(ns), world)
                 /\ Namespace(ns) \notin DOMAIN run'.desired
      BY <2>1, <2>2, <2>3, GeneratedPolicies
    <2> QED BY <1>1, <2>3 DEF IsolationInv, HasFields, CollectsOfTheGone, InForce
  <1> QED BY <1>2, <1>3

\* A namespace that is there to stay was so before, or the pass asked for it.
LEMMA InForceChange ==
  ASSUME ResourcesHaveFields, [Next]_vars, NEW n, InForce(n, world')
  PROVE  InForce(n, world) \/ n \in DOMAIN run.desired
  BY ResourceChange DEF InForce, Apply

LEMMA IsolationStep ==
  ASSUME ZoneParameters, ResourcesHaveFields, IsolationInv, [Next]_vars
  PROVE  IsolationInv'
  <1>1. CASE Reconcile
    BY <1>1, PassOnIsolates DEF Reconcile
  <1>2. CASE run' = NoRun
    BY <1>2 DEF IsolationInv, HasFields, CollectsOfTheGone, NoRun
  <1>3. CASE /\ HasFields(run') /\ run'.desired = run.desired
             /\ run'.todo \subseteq run.todo
    <2>1. ASSUME NEW ns \in Ns \ {Apps}, NEW n \in Isolating(ns),
                 n \in run'.todo \ DOMAIN run'.desired
          PROVE  /\ ~InForce(Namespace(ns), world')
                 /\ Namespace(ns) \notin DOMAIN run'.desired
      BY <1>3, <2>1, InForceChange DEF IsolationInv, CollectsOfTheGone
    <2> QED BY <1>3, <2>1 DEF IsolationInv, HasFields, CollectsOfTheGone, InForce
  <1> QED BY <1>1, <1>2, <1>3, RunChange DEF IsolationInv

\* What is there to stay goes on being so, unless it is collected or lost.
LEMMA StaysInForce ==
  ASSUME ResourcesHaveFields, [Next]_vars, NEW n, InForce(n, world),
         n \notin Losable, n \notin run.todo \ DOMAIN run.desired
  PROVE  InForce(n, world')
  <1>1. /\ n \in DOMAIN world /\ ~world[n].deleting
        /\ world[n] = [manifest |-> world[n].manifest, status |-> world[n].status,
                       deleting |-> world[n].deleting]
    BY DEF InForce, ResourcesHaveFields
  <1>2. ~GarbageCollect(n) /\ ~Lose(n) /\ ~Remove(n)
    BY <1>1 DEF GarbageCollect, Lose, Remove
  <1>3. /\ n \in DOMAIN world'
        /\ \/ world'[n] = world[n]
           \/ world'[n] = [world[n] EXCEPT !.manifest = run.desired[n]]
           \/ \E s : world'[n] = [world[n] EXCEPT !.status = s]
    BY <1>1, <1>2 DEF Next, vars, Reconcile, GarbageCollect, Apply, Report, Remove, Edit,
       Degrade, Lose, Abort, SetWorld
  <1> QED BY <1>1, <1>3 DEF InForce

\* The step that NamespaceStaysIsolated allows.
StaysIsolated ==
  \A ns \in Ns \ {Apps} :
    (/\ InForce(Namespace(ns), world) /\ InForce(Namespace(ns), world')
     /\ Isolated(ns, world))
      => Isolated(ns, world')

LEMMA NextStaysIsolated ==
  ASSUME PoliciesAreLeft, ResourcesHaveFields, IsolationInv, [Next]_vars
  PROVE  StaysIsolated
  <1> SUFFICES ASSUME NEW ns \in Ns \ {Apps}, InForce(Namespace(ns), world),
                      NEW n \in Isolating(ns), InForce(n, world)
               PROVE  InForce(n, world')
    BY IsolatedByPolicies DEF StaysIsolated
  <1>1. n \notin Losable
    BY DEF PoliciesAreLeft, Isolating
  <1>2. n \notin run.todo \ DOMAIN run.desired
    BY DEF IsolationInv, CollectsOfTheGone
  <1> QED BY <1>1, <1>2, StaysInForce

\* As long as nobody else deletes its policies, a namespace that a Zone has made
\* and that is there to stay does not become open to the nodes of other zones,
\* however the Zone and its environment are edited between two calls of a pass.
THEOREM NamespacesStayIsolated ==
  ASSUME ZoneParameters, PoliciesAreLeft
  PROVE  Spec => NamespaceStaysIsolated
  <1>1. ResourcesHaveFields /\ IsolationInv /\ [Next]_vars => IsolationInv'
    BY IsolationStep
  <1>2. ResourcesHaveFields /\ IsolationInv /\ [Next]_vars => [StaysIsolated]_vars
    BY NextStaysIsolated
  <1>3. [StaysIsolated]_vars
          <=> [\A ns \in Ns \ {Apps} :
                 (/\ InForce(Namespace(ns), world) /\ InForce(Namespace(ns), world')
                  /\ Isolated(ns, world))
                   => Isolated(ns, world')]_vars
    BY DEF StaysIsolated
  <1> QED BY <1>1, <1>2, <1>3, IsolationInitially, FieldsAlways, PTL
          DEF Spec, NamespaceStaysIsolated
================================================================================
