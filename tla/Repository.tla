-------------------------------- MODULE Repository ------------------------------
(***************************************************************************)
(* Repository (functions/artifact): the parameters it gives Composition.   *)
(* An ECR repository has one lifecycle policy, whose text the provider     *)
(* cannot change.  The composed LifecyclePolicy is named by the hash of    *)
(* its text, so that new rules replace it, and the next one is generated   *)
(* only when the last one is gone: both stand for the same ECR policy, and *)
(* whoever is deleted last takes it away.                                  *)
(***************************************************************************)
EXTENDS Composition

CONSTANT Policy    \* the texts a lifecycle policy may have

None == "none"

\* A repository is composed under the name of its composite.
Repo == <<"repository">>
lifecyclePolicyResourceName(policy) == <<"lifecycle-policy", policy>>
PolicyName == {lifecyclePolicyResourceName(p) : p \in Policy}

RepositoryName == {Repo} \cup PolicyName

\* rules is what the rules of the composite, or else those of the Environment,
\* come to; prefixed, whether the composite is itself called
\* lifecycle-policy-something; usable, whether the VPC has a region and the KMS
\* key, if there is one, an ARN.
RepositoryComposite ==
  [rules : Policy \cup {None}, prefixed : BOOLEAN, usable : BOOLEAN]

RepositoryManifest == Policy \cup {None}

RepositoryStatus == {"new", "up", "down"}
RepositoryNewStatus == "new"

--------------------------------------------------------------------------------
(***************************************************************************)
(* The handler.                                                            *)
(***************************************************************************)

\* The names that begin with LifecyclePolicyResourcePrefix.
Prefixed(c) == PolicyName \cup {n \in {Repo} : c.prefixed}

\* A handler that does not wait for the old policy to go.
NothingIsStale(c, observed, name) == FALSE

\* A handler that waits for the policy it would generate, too.
OwnIsStale(c, observed, name) == Prefixed(c) \cap DOMAIN observed # {}

hasStaleLifecyclePolicy(c, observed, name) ==
  (Prefixed(c) \cap DOMAIN observed) \ {name} # {}

\* GenerateRepositoryObject.
RepositoryGenerate(c, observed) ==
  LET name == lifecyclePolicyResourceName(c.rules)
      policies == IF c.rules = None \/ hasStaleLifecyclePolicy(c, observed, name)
                    THEN {} ELSE {name}
  IN IF ~c.usable THEN Fatal
     ELSE [n \in {Repo} \cup policies |-> IF n = Repo THEN None ELSE c.rules]

\* GetSequence.
RepositorySequence(c) == <<{Repo}, Prefixed(c)>>

\* GetReadyStatus leaves it to the conditions, and an upbound.io resource
\* without any is not ready.
RepositoryIsReady(n, resource) == resource.status = "up"

--------------------------------------------------------------------------------
(***************************************************************************)
(* ECR and its provider, and the user.                                     *)
(***************************************************************************)

\* ECR refuses a policy of a repository that is not there.
RepositoryReports(n, observed) ==
  IF n \in PolicyName
       /\ (Repo \notin DOMAIN observed \/ observed[Repo].status # "up")
    THEN {"down"} ELSE {"up"}

RepositoryDegrades(n, observed) == {"down"} \ {observed[n].status}

RepositoryRemovable(n, observed) == TRUE

\* The rules change, here or in the Environment, or what is required does.
RepositoryEdits(c) ==
  {[c EXCEPT !.rules = r] : r \in (Policy \cup {None}) \ {c.rules}}
    \cup {[c EXCEPT !.usable = ~c.usable]}

\* That the handler of Composition is the one of this module: what the theorem
\* of Repository_proofs assumes, and the configurations set.
RepositoryParameters ==
  \A c : \A observed : Generate(c, observed) = RepositoryGenerate(c, observed)

--------------------------------------------------------------------------------
(***************************************************************************)
(* Properties.                                                             *)
(***************************************************************************)

\* Never do two LifecyclePolicies exist at once, one on its way out included:
\* "both resources would share one external resource", and deleting the old
\* one would drop the new policy (repository.go, GenerateRepositoryObject).
OnePolicy ==
  \A m, n \in PolicyName \cap DOMAIN world : m = n

\* Once the function stops failing and the disruptions are over, the policy
\* that the rules come to is in force for good, and no other.
PolicyOfTheRules ==
  <>[](Generate(composite, world) # Fatal) =>
    <>[](/\ PolicyName \cap DOMAIN world =
              {lifecyclePolicyResourceName(p) : p \in Policy \cap {composite.rules}}
         /\ \A n \in PolicyName \cap DOMAIN world :
              ReadyIn(n, world) /\ ~world[n].deleting)
================================================================================
