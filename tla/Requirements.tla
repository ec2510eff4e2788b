------------------------------ MODULE Requirements -----------------------------
(***************************************************************************)
(* How a pass of the Crossplane controller gets its answer from the        *)
(* function (RunFunction, functions/common/base/fn.go) when what the       *)
(* function requires depends on what it required before: the Environment   *)
(* names the VPC and the KMS key, the Namespace names the Zone.            *)
(*                                                                         *)
(* Crossplane calls the function, fetches what the answer requires and     *)
(* calls again, until an answer requires what the one before did: that     *)
(* answer is accepted, and what it composes replaces what was there.  The  *)
(* first call of a pass is seeded with what an earlier pass required,      *)
(* fetched anew with the selectors recorded then.  The cluster and the     *)
(* release of the function change between any two calls.                   *)
(***************************************************************************)
EXTENDS Naturals

CONSTANTS
  Vpc, Kms, Zone,   \* names of VPCs, KMS keys and Zones
  None,             \* nothing: no such resource, no label, no key wanted
  NotAsked,         \* what the call before required, at the first call
  Fatal,            \* the answer of a function that failed
  MaxCalls,         \* how often a pass may call the function
  MaxChanges        \* bound on changes of the cluster and the function

VARIABLES
  cluster,    \* the Environment, the label of the Namespace, what else exists
  release,    \* of the function: the next one asks for VPCs at a new apiVersion
  recorded,   \* the selectors of the last accepted answer
  calls,      \* calls the pass has made, 0 between passes
  request,    \* the required resources of the next call
  previous,   \* the selectors of the call before
  composed,   \* what the last accepted answer composed
  gaveUp,     \* whether the last pass ended because nothing became stable
  changes,    \* how many changes there have been
  seen        \* history: changes since the pass began

pass == <<recorded, calls, request, previous, composed, gaveUp>>
vars == <<cluster, release, pass, changes, seen>>

Environment == [vpc : Vpc, kms : Kms \cup {None}]
Cluster == [env : Environment \cup {None}, zone : Zone \cup {None},
            exist : SUBSET (Vpc \cup Kms \cup Zone)]
Release == 1 .. 2

ASSUME NamesAssumption == None \notin Vpc \cup Kms \cup Zone
ASSUME CallsAssumption == MaxCalls \in Nat /\ MaxCalls >= 3
ASSUME ChangesAssumption == MaxChanges \in Nat

\* The keys that required resources are filed under.
Key == {"Environment", "VPC", "KMSDataKey", "Namespace", "Zone", "ZoneEnvironment"}

Selector == [name : Vpc \cup Kms \cup Zone \cup {None}, api : Release]

--------------------------------------------------------------------------------
(***************************************************************************)
(* The function.  A request is a function from keys to what was delivered  *)
(* under them: the apiVersion it was fetched at, and its content.          *)
(***************************************************************************)

\* An answer that composes nothing: requirements only.
Bare == [env |-> None]

\* What is composed before any answer was accepted.
Nothing == [n \in {} |-> n]

Content(key, given) ==
  IF key \in DOMAIN given THEN given[key].content ELSE None

\* A group that looks for a Zone only as long as it has none.
AsksUntilFound(given) ==
  {"Environment", "Namespace"}
    \cup {k \in {"VPC", "KMSDataKey"} :
            /\ Content("Environment", given) # None
            /\ k = "KMSDataKey" => Content("Environment", given).kms # None}
    \cup {k \in {"Zone", "ZoneEnvironment"} :
            Content("Namespace", given) # None /\ Content("Zone", given) = None}

\* A group that asks for a key the Environment does not name.
AsksForUnnamedKey(given) ==
  {"Environment", "Namespace"}
    \cup {k \in {"VPC", "KMSDataKey"} : Content("Environment", given) # None}
    \cup {k \in {"Zone", "ZoneEnvironment"} : Content("Namespace", given) # None}

\* GetRequiredResources of the group and addRequiredResources: the keys to ask
\* for.  The others follow once the Environment and the Namespace are there.
Asks(given) ==
  {"Environment", "Namespace"}
    \cup {k \in {"VPC", "KMSDataKey"} :
            /\ Content("Environment", given) # None
            /\ k = "KMSDataKey" => Content("Environment", given).kms # None}
    \cup {k \in {"Zone", "ZoneEnvironment"} : Content("Namespace", given) # None}

\* A group that leaves the choice of the VPC to the cluster.
SelectorOfAnyVpc(key, given) ==
  CASE key = "VPC" -> [name |-> CHOOSE v \in Vpc : TRUE, api |-> release]
    [] key = "KMSDataKey" -> [name |-> given["Environment"].content.kms, api |-> 1]
    [] key = "Zone" -> [name |-> given["Namespace"].content, api |-> 1]
    [] OTHER -> [name |-> None, api |-> 1]

\* The selector under a key.  Where the name is always the same it is None.
SelectorOf(key, given) ==
  CASE key = "VPC" -> [name |-> given["Environment"].content.vpc, api |-> release]
    [] key = "KMSDataKey" -> [name |-> given["Environment"].content.kms, api |-> 1]
    [] key = "Zone" -> [name |-> given["Namespace"].content, api |-> 1]
    [] OTHER -> [name |-> None, api |-> 1]

Requires(given) == [k \in Asks(given) |-> SelectorOf(k, given)]

\* A check that takes whatever was delivered under the key.
PresentByKey(selectors, given) == DOMAIN selectors \subseteq DOMAIN given

\* A check that takes what does not exist for what was not delivered.
PresentIfFound(selectors, given) ==
  \A k \in DOMAIN selectors :
    k \in DOMAIN given /\ given[k].content # None /\ given[k].api = selectors[k].api

\* requiredResourcesPresent.
requiredResourcesPresent(selectors, given) ==
  \A k \in DOMAIN selectors :
    /\ k \in DOMAIN given
    /\ given[k].content # None => given[k].api = selectors[k].api

\* addDesiredComposedResources, by what it reads: the VPC has to be there, and
\* decoding one of another apiVersion fails; the KMS key and the Zone may be
\* missing.
Composes(given) ==
  IF Content("VPC", given) = None \/ given["VPC"].api # release THEN Fatal
  ELSE [env |-> given["Environment"].content, vpc |-> given["VPC"].content,
        kms |-> Content("KMSDataKey", given),
        zone |-> given["Namespace"].content, tags |-> Content("Zone", given)]

\* RunFunction.  An Environment that was looked for and not found is an error.
RunFunction(given) ==
  IF "Environment" \in DOMAIN given /\ Content("Environment", given) = None
    THEN Fatal
    ELSE IF requiredResourcesPresent(Requires(given), given)
           THEN Composes(given) ELSE Bare

--------------------------------------------------------------------------------
(***************************************************************************)
(* The Crossplane controller.                                              *)
(***************************************************************************)

Fetched(key, name) ==
  CASE key = "Environment" -> cluster.env
    [] key = "Namespace" -> cluster.zone
    [] key = "ZoneEnvironment" -> None
    [] OTHER -> IF name \in cluster.exist THEN name ELSE None

Deliver(selectors) ==
  [k \in DOMAIN selectors |->
     [api |-> selectors[k].api, content |-> Fetched(k, selectors[k].name)]]

\* A pass begins: the request is seeded.
Begin ==
  /\ calls = 0
  /\ calls' = 1
  /\ request' = Deliver(recorded)
  /\ previous' = NotAsked
  /\ gaveUp' = FALSE
  /\ seen' = 0
  /\ UNCHANGED <<cluster, release, recorded, composed, changes>>

\* The pass ends.
End(failed) ==
  /\ calls' = 0
  /\ request' = [k \in {} |-> k]
  /\ previous' = NotAsked
  /\ gaveUp' = failed

\* A Fatal answer ends the pass and leaves everything as it is.
Fail ==
  /\ calls > 0
  /\ RunFunction(request) = Fatal
  /\ End(FALSE)
  /\ UNCHANGED <<cluster, release, recorded, composed, changes, seen>>

\* An answer that requires what the one before did is accepted.
Accept ==
  /\ calls > 0
  /\ RunFunction(request) # Fatal
  /\ previous # NotAsked
  /\ Requires(request) = previous
  /\ recorded' = Requires(request)
  /\ composed' = RunFunction(request)
  /\ End(FALSE)
  /\ UNCHANGED <<cluster, release, changes, seen>>

\* Any other is discarded, what it requires is fetched, and the function is
\* called again.
CallAgain ==
  /\ calls \in 1 .. MaxCalls - 1
  /\ RunFunction(request) # Fatal
  /\ Requires(request) # previous
  /\ calls' = calls + 1
  /\ request' = Deliver(Requires(request))
  /\ previous' = Requires(request)
  /\ UNCHANGED <<cluster, release, recorded, composed, gaveUp, changes, seen>>

\* Unless it was called too often.
GiveUp ==
  /\ calls = MaxCalls
  /\ RunFunction(request) # Fatal
  /\ Requires(request) # previous
  /\ End(TRUE)
  /\ UNCHANGED <<cluster, release, recorded, composed, changes, seen>>

--------------------------------------------------------------------------------
Change ==
  /\ changes < MaxChanges
  /\ changes' = changes + 1
  /\ seen' = IF calls = 0 THEN seen ELSE seen + 1

\* The platform team changes the EnvironmentConfig, removes it or restores it.
ChangeEnvironment ==
  /\ Change
  /\ \E e \in (Environment \cup {None}) \ {cluster.env} :
       cluster' = [cluster EXCEPT !.env = e]
  /\ UNCHANGED <<release, pass>>

\* The Namespace moves to another Zone, or out of its Zone.
MoveNamespace ==
  /\ Change
  /\ \E z \in (Zone \cup {None}) \ {cluster.zone} :
       cluster' = [cluster EXCEPT !.zone = z]
  /\ UNCHANGED <<release, pass>>

\* A VPC, a key or a Zone is created or deleted.
CreateOrDelete ==
  /\ Change
  /\ \E x \in Vpc \cup Kms \cup Zone :
       cluster' = [cluster EXCEPT !.exist =
                     IF x \in cluster.exist THEN @ \ {x} ELSE @ \cup {x}]
  /\ UNCHANGED <<release, pass>>

\* A new release of the function, which decodes VPCs at a new apiVersion.
Upgrade ==
  /\ Change
  /\ release = 1
  /\ release' = 2
  /\ UNCHANGED <<cluster, pass>>

\* At first everything exists that an Environment or a Namespace can name.
Init ==
  /\ cluster \in Cluster
  /\ cluster.exist = Vpc \cup Kms \cup Zone
  /\ release = 1
  /\ recorded = [k \in {} |-> k]
  /\ calls = 0
  /\ request = [k \in {} |-> k]
  /\ previous = NotAsked
  /\ composed = Nothing
  /\ gaveUp = FALSE
  /\ changes = 0
  /\ seen = 0

Next ==
  \/ Begin \/ Fail \/ Accept \/ CallAgain \/ GiveUp
  \/ ChangeEnvironment \/ MoveNamespace \/ CreateOrDelete \/ Upgrade

Spec == Init /\ [][Next]_vars

(***************************************************************************)
(* Composites are requeued, and a pass in progress goes on.                *)
(***************************************************************************)
FairSpec ==
  Spec /\ WF_vars(Begin) /\ WF_vars(Fail) /\ WF_vars(Accept)
       /\ WF_vars(CallAgain) /\ WF_vars(GiveUp)

--------------------------------------------------------------------------------
(***************************************************************************)
(* Properties.                                                             *)
(***************************************************************************)

Answer ==
  [env : Environment, vpc : Vpc, kms : Kms \cup {None},
   zone : Zone \cup {None}, tags : Zone \cup {None}]

\* What depends on the Environment or the Namespace is asked for by its name.
AreSelectors(selectors) ==
  /\ DOMAIN selectors \subseteq Key
  /\ \A k \in DOMAIN selectors :
       /\ selectors[k] \in Selector
       /\ k \in {"VPC", "KMSDataKey", "Zone"} <=> selectors[k].name # None

TypeOK ==
  /\ cluster \in Cluster
  /\ release \in Release
  /\ calls \in 0 .. MaxCalls
  /\ AreSelectors(recorded)
  /\ DOMAIN request \subseteq Key
  /\ previous # NotAsked =>
       AreSelectors(previous) /\ DOMAIN request = DOMAIN previous
  /\ composed \in Answer \cup {Nothing, Bare}
  /\ gaveUp \in BOOLEAN
  /\ changes \in 0 .. MaxChanges
  /\ seen \in 0 .. MaxChanges

\* No answer that only lists requirements is ever accepted, whatever is
\* missing and whatever changes meanwhile: the controller would collect every
\* composed resource there is (fn.go, requiredResourcesPresent).
BareIsNeverAccepted == composed # Bare

\* What is composed is composed from one view of the cluster: the VPC and the
\* key are those that its Environment names, and the tags are those of the Zone
\* that its Namespace is in, even though a seeded call mixes old and new.
AnswerIsConsistent ==
  composed \notin {Nothing, Bare} =>
    /\ composed.vpc = composed.env.vpc
    /\ composed.kms \in {None, composed.env.kms}
    /\ composed.tags \in {None, composed.zone}

\* A pass gives up only if there were as many changes in it as it has calls to
\* spare: what the function requires is at most one step away from stable.
GivesUpOnlyAmidChanges == gaveUp => seen >= MaxCalls - 2

\* The Environment is there, and so is every VPC that it has ever named.
Healthy == cluster.env # None /\ Vpc \subseteq cluster.exist

\* Once the cluster is healthy and stays so, what is composed comes to be what
\* the cluster says and remains it.  No seed of an older release, and no seed
\* taken from an older Environment, keeps every later pass from succeeding.
EventuallyComposed ==
  <>[]Healthy =>
    <>[](/\ composed \notin {Nothing, Bare}
         /\ composed.env = cluster.env
         /\ composed.zone = cluster.zone)
================================================================================
