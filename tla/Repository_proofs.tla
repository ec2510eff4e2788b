---------------------------- MODULE Repository_proofs --------------------------
(***************************************************************************)
(* One lifecycle policy at a time: for any policies, any providers and any *)
(* order of edits, passes, aborts and deletions.                           *)
(***************************************************************************)
EXTENDS Repository, Composition_proofs

\* The policies there are and those that the pass has yet to apply.
Held ==
  PolicyName \cap (DOMAIN world \cup (run.todo \cap DOMAIN run.desired))

\* OnePolicy alone is not inductive: a pass could have two policies to create,
\* or one beside another that exists.
PolicyInv ==
  /\ HasFields(run)
  /\ \A m, n \in Held : m = n

LEMMA RepoIsNoPolicy == Repo \notin PolicyName
  BY DEF Repo, PolicyName, lifecyclePolicyResourceName

\* A pass that asks for a policy read no other.
LEMMA PassOnPolicies ==
  ASSUME RepositoryParameters, NEW c, NEW observed,
         NEW m \in PolicyName, NEW n \in PolicyName,
         m \in DOMAIN observed \cup DOMAIN PassOn(c, observed).desired,
         n \in PassOn(c, observed).todo \cap DOMAIN PassOn(c, observed).desired
  PROVE  m = n
  <1> DEFINE generated == Generate(c, observed)
             r == PassOn(c, observed)
             name == lifecyclePolicyResourceName(c.rules)
  <1>1. /\ r.desired = Sequenced(Sequence(c), generated, observed)
        /\ generated # Fatal
    BY DEF PassOn, NoRun, NoNames
  <1>2. DOMAIN r.desired \subseteq DOMAIN generated
    BY <1>1, SequencedFacts
  <1>3. generated = RepositoryGenerate(c, observed)
    BY DEF RepositoryParameters
  <1>4. \A k \in PolicyName \cap DOMAIN generated :
          k = name /\ ~hasStaleLifecyclePolicy(c, observed, name)
    <2>1. generated # Fatal
      BY <1>1
    <2> HIDE DEF name
    <2> QED BY <1>3, <2>1, RepoIsNoPolicy DEF RepositoryGenerate, name
  <1>5. n = name /\ ~hasStaleLifecyclePolicy(c, observed, name)
    BY <1>2, <1>4
  <1>6. CASE m \in DOMAIN observed
    BY <1>5, <1>6 DEF hasStaleLifecyclePolicy, Prefixed
  <1>7. CASE m \in DOMAIN r.desired
    BY <1>2, <1>4, <1>5, <1>7
  <1> HIDE DEF r
  <1> QED BY <1>6, <1>7 DEF r

\* Only a new pass comes to hold a policy that was not held before.
LEMMA HeldShrinks ==
  ASSUME PolicyInv, [Next]_vars, ~Reconcile
  PROVE  HasFields(run)' /\ Held' \subseteq Held
  <1>1. ASSUME NEW n \in Name, GarbageCollect(n)
        PROVE  HasFields(run)' /\ Held' \subseteq Held
    <2>1. run' = Called(n) /\ DOMAIN world' = DOMAIN world
      BY <1>1 DEF GarbageCollect, SetWorld
    <2> QED BY <2>1, CalledFields DEF PolicyInv, Held, NoRun, NoNames, HasFields
  <1>2. ASSUME NEW n \in Name, Apply(n)
        PROVE  HasFields(run)' /\ Held' \subseteq Held
    <2>1. run' = Called(n) /\ DOMAIN world' = DOMAIN world \cup {n}
      BY <1>2 DEF Apply, SetWorld
    <2>2. n \in run.todo \cap DOMAIN run.desired
      BY <1>2 DEF Apply
    <2> QED BY <2>1, <2>2, CalledFields DEF PolicyInv, Held, NoRun, NoNames, HasFields
  <1>3. ASSUME NEW n \in Name, Report(n) \/ Remove(n) \/ Degrade(n) \/ Lose(n)
        PROVE  HasFields(run)' /\ Held' \subseteq Held
    <2>1. run' = run /\ DOMAIN world' \subseteq DOMAIN world
      BY <1>3 DEF Report, Remove, Degrade, Lose, SetWorld
    <2> QED BY <2>1 DEF PolicyInv, Held, HasFields
  <1>4. CASE Edit \/ UNCHANGED vars
    BY <1>4 DEF Edit, vars, PolicyInv, Held, HasFields
  <1>5. CASE Abort
    BY <1>5 DEF Abort, PolicyInv, Held, NoRun, NoNames, HasFields
  <1> QED BY <1>1, <1>2, <1>3, <1>4, <1>5 DEF Next

LEMMA PolicyStep ==
  ASSUME RepositoryParameters, PolicyInv, [Next]_vars
  PROVE  PolicyInv'
  <1>1. CASE Reconcile
    <2>1. run' = PassOn(composite, world) /\ world' = world
      BY <1>1 DEF Reconcile
    <2>2. HasFields(run)'
      BY <2>1 DEF PassOn, NoRun, NoNames, HasFields
    <2>3. \A m, n \in Held' :
            (m \notin DOMAIN world \/ n \notin DOMAIN world) => m = n
      BY <2>1, PassOnPolicies DEF Held
    <2>4. \A m, n \in PolicyName \cap DOMAIN world : m = n
      BY DEF PolicyInv, Held
    <2> QED BY <2>2, <2>3, <2>4 DEF PolicyInv, Held
  <1>2. CASE ~Reconcile
    BY <1>2, HeldShrinks DEF PolicyInv
  <1> QED BY <1>1, <1>2

\* Two LifecyclePolicies never exist at once, so deleting the one that the
\* rules have given up never takes away the one that follows it
\* (repository.go, hasStaleLifecyclePolicy).
THEOREM OnePolicyAtATime ==
  ASSUME RepositoryParameters
  PROVE  Spec => []OnePolicy
  <1>1. Init => PolicyInv
    BY DEF Init, PolicyInv, Held, HasFields, NoRun, NoNames
  <1>2. PolicyInv /\ [Next]_vars => PolicyInv'
    BY PolicyStep
  <1>3. PolicyInv => OnePolicy
    BY DEF PolicyInv, Held, OnePolicy
  <1> QED BY <1>1, <1>2, <1>3, PTL DEF Spec
================================================================================
